------------------------------ MODULE UserState ------------------------------
(***************************************************************************)
(* What the program keeps about its user's correspondents from one run to  *)
(* the next and in between: their contexts and the application's slots for *)
(* them, the fingerprints of their keys with the trust in them, the file   *)
(* of the fingerprints, and the timer that wipes unanswered D-H Commits.   *)
(*                                                                         *)
(* Modelled from OTRL/context.c (find, forget, forget_fingerprint,         *)
(* force_plaintext), OTRL/privkey.c (reading and writing fingerprints),    *)
(* OTRL/message.c (go_encrypted, send_or_error_auth, poll, the choice of   *)
(* context), SettingsBroker.cpp (ui_forget_fingerprint), ChatBroker.cpp    *)
(* (authenticatePeer) and wtwOTRmessaging (the pool, the timer, the file). *)
(*                                                                         *)
(* A fingerprint is an object, named by a serial number: contexts point to *)
(* it, and it may be freed while they do.  A correspondent with an old     *)
(* client uses the master context, any other one an instance context.  SMP *)
(* sets no trust here: the plugin does not answer its events.              *)
(*                                                                         *)
(* These are the actions; OtrlUserState makes a specification of them.     *)
(***************************************************************************)
EXTENDS Naturals, FiniteSets, Functions

CONSTANTS
  Correspondents,
  Old,         \* the correspondents whose client knows protocol version 2 only
  Keys,        \* the keys a correspondent may come with
  PoolSize,    \* INSTANCES_TOTAL
  Outcomes,    \* what writing the file may come to
  MaxEvents    \* bound: what the user, the correspondents and the system do

ASSUME OldAreCorrespondents == Old \subseteq Correspondents
ASSUME BoundsAreNat == PoolSize \in Nat /\ MaxEvents \in Nat

\* The file cannot be opened; or the program ends before all lines are written.
ASSUME OutcomesAreKnown ==
  "done" \in Outcomes /\ Outcomes \subseteq {"done", "unopened", "cut"}

VARIABLES
  running,        \* whether the plugin is loaded
  context,        \* the ConnContexts there are, by correspondent and instance
  owned,          \* the contexts with a WtwOtrContext
  known,          \* the fingerprints in the lists of the master contexts
  serials,        \* fingerprints allocated so far
  file,           \* the lines of the fingerprint file
  dialog,         \* the dialog of authenticatePeer, if it is open
  waiting,        \* the masters with a D-H Commit sent, and whether long ago
  timer_running,  \* of the OtrlUserState
  otrl_timer_set, \* of the plugin: the host has a timer
  events,         \* how much has happened
  saved,          \* history: what the latest writing of the file has come to
  approved,       \* history: the keys that the user found right when last asked
  unsure,         \* history: keys whose trust the user's answer did not reach
  exhausted       \* history: there have been more contexts than slots

vars == <<running, context, owned, known, serials, file, dialog, waiting,
          timer_running, otrl_timer_set, events, saved, approved, unsure, exhausted>>
unchangedTimer == <<waiting, timer_running, otrl_timer_set>>
unchangedKeys == <<known, serials, file, saved, approved, unsure>>
unchangedContexts == <<context, owned, exhausted>>

NULL == 0
Closed == [on |-> <<>>, shown |-> NULL, fresh |-> FALSE]

Master(x) == <<x, "master">>
Instance(x) == <<x, "instance">>
Home(x) == IF x \in Old THEN Master(x) ELSE Instance(x)
Masters == {Master(x) : x \in Correspondents}
ContextsOf(x) == {Master(x), Instance(x)}

NewContext == [msgstate |-> "PLAINTEXT", active |-> NULL]
Exists(c) == c \in DOMAIN context
Alive(c) == Exists(c) /\ context[c].active \in DOMAIN known

-----------------------------------------------------------------------------
(* Contexts and slots.                                                     *)

\* Lists get a new entry d.
With(f, d, v) == [e \in DOMAIN f \cup {d} |-> IF e = d THEN v ELSE f[e]]

\* otrl_context_find with add_if_missing: the master first, and an instance with
\* the state of its master.
Added(c) ==
  LET m == Master(c[1])
      f == IF Exists(m) THEN context ELSE With(context, m, NewContext)
  IN  IF c \in DOMAIN f THEN f
      ELSE With(f, c, [NewContext EXCEPT !.msgstate = f[m].msgstate])

\* otrl_ConnContex_created, for each new context while there are slots left; and
\* the release of the slots of contexts that are forgotten.
NeverReleased(f) == owned
Kept(f) == owned \cap DOMAIN f
SlotsFor(f) ==
  LET new == DOMAIN f \ DOMAIN context
      free == PoolSize - Cardinality(Kept(f))
  IN  {Kept(f) \cup s : s \in {s \in SUBSET new :
         /\ Cardinality(s) = IF Cardinality(new) < free THEN Cardinality(new) ELSE free
         /\ s # {} /\ s # new => s \subseteq Masters}}

Contexts(f) ==
  /\ context' = f
  /\ owned' \in SlotsFor(f)
  /\ exhausted' = (exhausted \/ Cardinality(DOMAIN f) > PoolSize)

\* otrl_context_force_finished clears auth, and otrl_auth_clear what was sent.
Forced(c, state) ==
  /\ context' = [context EXCEPT ![c] = [msgstate |-> state, active |-> NULL]]
  /\ waiting' = IF c \in Masters THEN [waiting EXCEPT ![c[1]] = "no"] ELSE waiting

-----------------------------------------------------------------------------
(* The list of fingerprints and its file.                                  *)

Lines(f) == Range(f)

\* otrl_privkey_write_fingerprints rewrites the file in place.
Written(f) ==
  /\ saved' \in Outcomes
  /\ \/ saved' = "done" /\ file' = Lines(f)
     \/ saved' = "unopened" /\ file' = file
     \/ saved' = "cut" /\ file' \in SUBSET Lines(f)
  /\ running' = (saved' # "cut")

NotWritten == UNCHANGED <<file, saved, running>>

Fingerprints(x) == {n \in DOMAIN known : known[n].of = x}

-----------------------------------------------------------------------------
Init ==
  /\ running = TRUE
  /\ context = <<>>
  /\ owned = {}
  /\ known = <<>>
  /\ serials = 0
  /\ file = {}
  /\ dialog = Closed
  /\ waiting = [x \in Correspondents |-> "no"]
  /\ timer_running = 0
  /\ otrl_timer_set = FALSE
  /\ events = 0
  /\ saved = "done"
  /\ approved = {}
  /\ unsure = {}
  /\ exhausted = FALSE

Happens == running /\ events < MaxEvents /\ events' = events + 1

(* Conversations begin and end.                                            *)

\* go_encrypted, with the key k of the correspondent.  A fingerprint that is new
\* is written before the context points to it.
GoEncrypted(x, k) ==
  LET c == Home(x)
      line == [of |-> x, key |-> k, trusted |-> FALSE]
      Secured(n) == Contexts([Added(c) EXCEPT ![c] =
                      [msgstate |-> "ENCRYPTED", active |-> n]])
  IN
  /\ Happens
  /\ \/ \E n \in Fingerprints(x) :
          /\ known[n].key = k
          /\ Secured(n)
          /\ UNCHANGED <<known, serials>> /\ NotWritten
     \/ /\ \A n \in Fingerprints(x) : known[n].key # k
        /\ serials' = serials + 1
        /\ known' = With(known, serials', line)
        /\ Written(known')
        /\ Secured(serials')
  /\ UNCHANGED <<dialog, unchangedTimer, approved, unsure>>

\* The user ends it, or the correspondent does.
End(c, state) ==
  /\ Happens /\ Exists(c)
  /\ \/ state = "PLAINTEXT"
     \/ state = "FINISHED" /\ context[c].msgstate = "ENCRYPTED"
  /\ Forced(c, state)
  /\ UNCHANGED <<running, owned, exhausted, unchangedKeys, dialog, timer_running,
                 otrl_timer_set>>

CloseContext(c) == \E state \in {"PLAINTEXT", "FINISHED"} : End(c, state)

\* send_or_error_auth: a D-H Commit of version 3 goes out of the master context.
SendCommit(x) ==
  /\ Happens /\ x \notin Old
  /\ Contexts(Added(Master(x)))
  /\ waiting' = [waiting EXCEPT ![x] = "recent"]
  /\ IF timer_running = 0
     THEN timer_running' = 1 /\ otrl_timer_set' \in BOOLEAN
     ELSE UNCHANGED <<timer_running, otrl_timer_set>>
  /\ UNCHANGED <<running, unchangedKeys, dialog>>

\* Its D-H Key: the instance context takes the master's exchange over, and its
\* state.
ReceiveKey(x) ==
  LET f == Added(Instance(x))
  IN
  /\ Happens /\ waiting[x] # "no"
  /\ Contexts([f EXCEPT ![Instance(x)].msgstate = f[Master(x)].msgstate])
  /\ UNCHANGED <<running, unchangedKeys, dialog, unchangedTimer>>

\* A D-H Commit of version 3 also makes the instance context that answers it.
ReceiveCommit(x) ==
  /\ Happens /\ x \notin Old /\ ~Exists(Instance(x))
  /\ Contexts(Added(Instance(x)))
  /\ UNCHANGED <<running, unchangedKeys, dialog, unchangedTimer>>

(* The user looks after the keys.                                          *)

\* ui_forget_fingerprint: refused if a private conversation is using it.
MasterOnly(n) ==
  LET c == Master(known[n].of)
  IN  context[c].msgstate = "ENCRYPTED" => context[c].active # n
Forgettable(n) ==
  \A c \in ContextsOf(known[n].of) :
    Exists(c) /\ context[c].msgstate = "ENCRYPTED" => context[c].active # n

\* otrl_context_forget_fingerprint, and otrl_context_forget if it was the last.
ForgetFingerprint(n) ==
  LET x == known[n].of
      m == Master(x)
      plain == \A c \in ContextsOf(x) :
                 Exists(c) => context[c].msgstate = "PLAINTEXT"
  IN
  /\ Happens /\ n \in DOMAIN known /\ Forgettable(n)
  /\ \/ /\ context[m].msgstate = "PLAINTEXT" /\ context[m].active = n
        /\ UNCHANGED <<known, approved, unchangedContexts, dialog, waiting>>
     \/ /\ context[m].msgstate # "PLAINTEXT" \/ context[m].active # n
        /\ known' = Restrict(known, DOMAIN known \ {n})
        /\ approved' = approved \ {<<x, known[n].key>>}
        /\ \/ /\ plain /\ Fingerprints(x) = {n}
              /\ Contexts(Restrict(context, DOMAIN context \ ContextsOf(x)))
              /\ waiting' = [waiting EXCEPT ![x] = "no"]
              /\ dialog' = IF dialog.on \in ContextsOf(x)
                           THEN [dialog EXCEPT !.fresh = FALSE] ELSE dialog
           \/ /\ ~(plain /\ Fingerprints(x) = {n})
              /\ UNCHANGED <<unchangedContexts, dialog, waiting>>
  /\ Written(known')
  /\ UNCHANGED <<serials, timer_running, otrl_timer_set, unsure>>

\* authenticatePeer shows the key in use ...
OpenDialog(c) ==
  /\ Happens /\ dialog = Closed /\ Alive(c)
  /\ dialog' = [on |-> c, shown |-> known[context[c].active].key, fresh |-> TRUE]
  /\ UNCHANGED <<running, unchangedContexts, unchangedKeys, unchangedTimer>>

\* ... and sets the trust in the key that is in use when the user is done.  What
\* happens to a context or a fingerprint that is freed by then is undefined: the
\* program may end (Restart), or nothing comes of it.
TrustKept(n, approval) ==
  IF n = NULL THEN known ELSE [known EXCEPT ![n].trusted = @ \/ approval]
SetTrust(n, approval) ==
  IF n = NULL THEN known ELSE [known EXCEPT ![n].trusted = approval]

WhenGiven(n, approval) == approval /\ (n = NULL \/ ~known[n].trusted)
WhenChanged(n, approval) == approval # (n # NULL /\ known[n].trusted)

CloseDialog(approval) ==
  LET c == dialog.on
      x == c[1]
      shown == <<x, dialog.shown>>
      n == context[c].active
      there == dialog.fresh /\ n \in DOMAIN known \cup {NULL}
      used == IF n = NULL THEN shown ELSE <<x, known[n].key>>
  IN
  /\ running /\ dialog # Closed
  /\ dialog' = Closed
  /\ approved' = IF approval THEN approved \cup {shown} ELSE approved \ {shown}
  /\ \/ /\ there
        /\ known' = SetTrust(n, approval)
        /\ IF WhenChanged(n, approval) THEN Written(known') ELSE NotWritten
        /\ unsure' = IF n # NULL /\ used = shown THEN unsure \ {shown}
                     ELSE unsure \cup {shown, used}
     \/ /\ ~there
        /\ unsure' = unsure \cup {shown}
        /\ UNCHANGED known /\ NotWritten
  /\ UNCHANGED <<unchangedContexts, serials, unchangedTimer, events>>

CancelDialog ==
  /\ running /\ dialog # Closed
  /\ dialog' = Closed
  /\ UNCHANGED <<running, unchangedContexts, unchangedKeys, unchangedTimer, events>>

(* Time passes.                                                            *)

\* More than MAX_AKE_WAIT_TIME since the D-H Commit was sent.
Age(x) ==
  /\ running /\ waiting[x] = "recent"
  /\ waiting' = [waiting EXCEPT ![x] = "stale"]
  /\ UNCHANGED <<running, unchangedContexts, unchangedKeys, dialog, timer_running,
                 otrl_timer_set, events>>

\* otrl_timer_callback and otrl_message_poll.
AnyStale == \E x \in Correspondents : waiting[x] = "stale"
StillWaiting == \E x \in Correspondents : waiting[x] = "recent"
Poll ==
  /\ running /\ otrl_timer_set
  /\ waiting' = [x \in Correspondents |->
                   IF waiting[x] = "stale" THEN "no" ELSE waiting[x]]
  /\ IF StillWaiting THEN UNCHANGED <<timer_running, otrl_timer_set>>
     ELSE timer_running' = 0 /\ otrl_timer_set' = FALSE
  /\ UNCHANGED <<running, unchangedContexts, unchangedKeys, dialog, events>>

\* The plugin is unloaded or the program ends, and starts again: initializeOTRL
\* and otrl_privkey_read_fingerprints.
Restart ==
  LET masters == {Master(line.of) : line \in file}
  IN
  /\ events < MaxEvents \/ ~running
  /\ events' = IF running THEN events + 1 ELSE events
  /\ running' = TRUE
  /\ context' = [m \in masters |-> NewContext]
  /\ owned' \in {s \in SUBSET masters : Cardinality(s) =
                   IF Cardinality(masters) < PoolSize THEN Cardinality(masters)
                   ELSE PoolSize}
  /\ exhausted' = (Cardinality(masters) > PoolSize)
  /\ known' = CHOOSE f \in [serials + 1 .. serials + Cardinality(file) -> file] :
                Lines(f) = file
  /\ serials' = serials + Cardinality(file)
  /\ dialog' = Closed
  /\ waiting' = [x \in Correspondents |-> "no"]
  /\ timer_running' = 0
  /\ otrl_timer_set' = FALSE
  /\ unsure' = CASE saved = "done" -> unsure
                 [] saved = "unopened" -> Correspondents \X Keys
                 [] saved = "cut" -> unsure \cup approved
  /\ UNCHANGED <<file, saved, approved>>

-----------------------------------------------------------------------------
\* Types; every fingerprint is in the list of a context, every instance has its
\* master, and a context is without a slot only if there were more contexts than
\* slots since the start: none is lost as contexts are forgotten (context.c:521-524).
TypeOK ==
  /\ DOMAIN context \subseteq UNION {ContextsOf(x) : x \in Correspondents}
  /\ \A c \in DOMAIN context :
       /\ context[c].msgstate \in {"PLAINTEXT", "ENCRYPTED", "FINISHED"}
       /\ context[c].active \in 0 .. serials
       /\ Exists(Master(c[1]))
  /\ owned \subseteq DOMAIN context /\ Cardinality(owned) <= PoolSize
  /\ exhausted \/ owned = DOMAIN context
  /\ \A n \in DOMAIN known : Exists(Master(known[n].of))
  /\ \A x \in Correspondents : waiting[x] # "no" => Exists(Master(x))
  /\ (timer_running = 0) => ~otrl_timer_set

\* A private conversation has its fingerprint in the list and one that is over has
\* none, whatever the user forgets meanwhile (SettingsBroker.cpp:1420, context.c:
\* 447-455); only a context that a D-H Key has made PLAINTEXT may point to one that
\* is freed (message.c:1124).
ActiveIsKnown ==
  \A c \in DOMAIN context :
    /\ context[c].msgstate = "ENCRYPTED" => Alive(c)
    /\ context[c].msgstate = "FINISHED" => context[c].active = NULL

\* The file has what the program knows, unless its last writing failed: nothing
\* is learnt, trusted or forgotten without it (message.c:552, ChatBroker.cpp:636,
\* SettingsBroker.cpp:1454).
FileIsMemory == running /\ saved = "done" => file = Lines(known)

\* A key is trusted just if the user found it right when asked last (ChatBroker.cpp:
\* 600-616, privkey.c:757), over any restart; but for an answer given while the
\* key in use was changed, a file that could not be opened, which brings revoked
\* trust back, and one that was cut off, which only loses trust.
TrustIsTheUsers ==
  running => \A x \in Correspondents, k \in Keys :
    <<x, k>> \notin unsure =>
      (<<x, k>> \in approved
         <=> \E n \in Fingerprints(x) : known[n].key = k /\ known[n].trusted)

\* A D-H Commit that is not answered is given up some time, and its key wiped
\* (message.c:2036-2061), unless the timer could not be created as it was needed
\* (message.c:494, wtwOTRmessaging.cpp:817).
CommitsExpire ==
  \A x \in Correspondents :
    waiting[x] # "no" ~> \/ waiting[x] = "no" \/ ~running
                         \/ timer_running = 1 /\ ~otrl_timer_set
=============================================================================
