---------------------------- MODULE OtrlUserState ----------------------------
(***************************************************************************)
(* All of the OtrlUserState: the correspondents of module UserState, and   *)
(* the private keys and instance tags of the accounts they write to, of    *)
(* module Accounts, joined where the message handlers join them: a context *)
(* gets its our_instance as it is made or first used, and a key exchange   *)
(* needs the private key of its account.                                   *)
(*                                                                         *)
(* Modelled from OTRL/message.c (populate_context_instag and its callers,  *)
(* the choice of context, the need of a private key), OTRL/context.c       *)
(* (find) and wtwOTRmessaging.cpp (initializeOTRL).                        *)
(***************************************************************************)
EXTENDS UserState

CONSTANTS Accounts, AccountOf

ASSUME EveryContextHasAccount == AccountOf \in [Correspondents -> Accounts]

VARIABLES privkeys, pending, keyfile, instags, tagfile, refused,
          our_instance   \* of each context: 0 as "none", the account's tag as
                         \* "tag", or a "stray" one that the context alone has

Own == INSTANCE Accounts

accounts == <<privkeys, pending, keyfile, instags, tagfile, refused>>

allVars == <<vars, accounts, our_instance>>

\* otrl_context_find gives a new context the tag of its account, if there is one.
Untagged(x, tags) == "none"
Given(x, tags) == IF AccountOf[x] \in tags THEN "tag" ELSE "none"

\* The contexts after a step, with the tags of those that were there.
Tagged ==
  our_instance' = [c \in DOMAIN context' |->
    IF c \in DOMAIN our_instance THEN our_instance[c] ELSE Given(c[1], instags)]

Populated(c) == Exists(c) /\ our_instance[c] # "none"

\* The other end is deaf to messages of an instance without a tag (message.c:1090),
\* and this one to those for a tag that is not the master's (message.c:1064).
Speaks(x) ==
  /\ Populated(Master(x))
  /\ x \notin Old =>
       our_instance[Master(x)] =
         IF Exists(Instance(x)) THEN our_instance[Instance(x)]
         ELSE Given(x, instags)

-----------------------------------------------------------------------------
InitAll ==
  /\ Init /\ Own!Init
  /\ our_instance = <<>>

\* The program goes on, unless it ends as the file is written.
Survives(outcome) ==
  IF outcome = "cut"
  THEN events < MaxEvents /\ events' = events + 1 /\ running' = FALSE
  ELSE UNCHANGED <<events, running>>

\* The first message in a conversation, or the first that is sent to an instance:
\* otrl_context_find, and populate_context_instag if the context has no tag.
Populate(c) ==
  LET x == c[1]
      a == AccountOf[x]
      Gets(tag) == our_instance' =
        [d \in DOMAIN context' |-> IF d = c THEN tag ELSE our_instance[d]]
  IN
  /\ running /\ ~Populated(c)
  /\ c \in Masters \/ Exists(c)
  /\ Contexts(Added(c))
  /\ \/ a \in instags /\ Gets("tag") /\ UNCHANGED <<accounts, events, running>>
     \/ \E outcome \in Outcomes :
          /\ Own!MakeTag(a, outcome)
          /\ Survives(outcome)
          /\ Gets(IF outcome = "unopened" THEN "stray" ELSE "tag")
  /\ UNCHANGED <<unchangedKeys, dialog, unchangedTimer>>

\* A message of a key exchange finds that the account has no private key.
NeedKey(x) ==
  /\ running /\ Populated(Master(x))
  /\ \E outcome \in Outcomes :
       Own!MakeKey(AccountOf[x], outcome) /\ Survives(outcome)
  /\ UNCHANGED <<unchangedContexts, our_instance, unchangedKeys, dialog,
                 unchangedTimer>>

StepOf(x) ==
  \/ /\ Speaks(x) /\ AccountOf[x] \in privkeys
     /\ \E k \in Keys : GoEncrypted(x, k)
  \/ Populated(Master(x)) /\ (SendCommit(x) \/ ReceiveCommit(x))
  \/ ReceiveKey(x) \/ Age(x)
  \/ \E c \in ContextsOf(x) : CloseContext(c) \/ OpenDialog(c)

UserStep ==
  \/ \E x \in Correspondents : StepOf(x)
  \/ \E n \in DOMAIN known : ForgetFingerprint(n)
  \/ \E approval \in BOOLEAN : CloseDialog(approval)
  \/ CancelDialog \/ Poll

\* initializeOTRL reads the keys, the tags and the fingerprints, in this order.
RestartAll ==
  /\ Restart /\ Own!Read
  /\ our_instance' = [c \in DOMAIN context' |-> Given(c[1], instags')]

NextAll ==
  \/ UserStep /\ Tagged /\ UNCHANGED accounts
  \/ \E x \in Correspondents :
       NeedKey(x) \/ \E c \in ContextsOf(x) : Populate(c)
  \/ RestartAll

\* Time passes, and the host calls the timer that it has.
FairAll ==
  /\ \A x \in Correspondents : WF_allVars(Age(x) /\ Tagged /\ UNCHANGED accounts)
  /\ WF_allVars(Poll /\ Tagged /\ UNCHANGED accounts)

SpecAll == InitAll /\ [][NextAll]_allVars /\ FairAll

-----------------------------------------------------------------------------
\* Types, here and in the two parts.
StateOK ==
  /\ TypeOK /\ Own!TypeOK
  /\ our_instance \in [DOMAIN context -> {"none", "tag", "stray"}]

\* What was made for an account stays its own, whatever is made for other accounts
\* and over any restart (privkey.c:591-624, instag.c:222-245): its key goes only with
\* all keys, as their file was cut off, and its tag only as the program ended in the
\* middle of writing a file.
IdentityLasts ==
  [][ /\ privkeys \subseteq privkeys' \/ keyfile = {}
      /\ instags \subseteq instags' \/ ~running ]_allVars

\* The contexts of one correspondent have one tag, that of the account, so that what
\* an instance sends and what the master lets through agree (context.c:320, message.
\* c:1064); but for an account whose file could not be opened since the start.
OneTag ==
  \A c \in DOMAIN our_instance :
    AccountOf[c[1]] \notin refused =>
      /\ our_instance[c] # "stray"
      /\ c \notin Masters => our_instance[c] = "tag"
=============================================================================
