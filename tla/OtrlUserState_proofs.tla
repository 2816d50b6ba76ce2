------------------------ MODULE OtrlUserState_proofs ------------------------
(***************************************************************************)
(* Proofs about OtrlUserState, for any correspondents, accounts, keys and  *)
(* number of slots.                                                        *)
(*                                                                         *)
(* What the file holds decides what the next run knows, so the invariant   *)
(* relates the file to the list of fingerprints for each thing that its    *)
(* latest writing may have come to, and the trust in the list to the       *)
(* answers of the user whether the program runs or not.                    *)
(***************************************************************************)
EXTENDS OtrlUserState, FiniteSetTheorems, TLAPS

-----------------------------------------------------------------------------
(* The inductive invariant.                                                *)

Line == [of : Correspondents, key : Keys, trusted : BOOLEAN]
AllContexts == UNION {ContextsOf(x) : x \in Correspondents}
KeysOfAll == Correspondents \X Keys
ContextType(n) == [msgstate : {"PLAINTEXT", "ENCRYPTED", "FINISHED"}, active : 0 .. n]

\* Every instance has its master, and old clients have no instances.
Places(f) ==
  /\ IsFiniteSet(DOMAIN f) /\ DOMAIN f \subseteq AllContexts
  /\ \A c \in DOMAIN f : Master(c[1]) \in DOMAIN f /\ (c \in Masters \/ c[1] \notin Old)

\* A correspondent has private conversations in one context only, the home.
HomesOnly == \A c \in DOMAIN context : c # Home(c[1]) => context[c] = NewContext

\* A context only ever points to fingerprints of its own correspondent.
ActiveIsOwn ==
  \A c \in DOMAIN context : Alive(c) => known[context[c].active].of = c[1]

ContextsInv ==
  /\ Places(context)
  /\ serials \in Nat /\ DOMAIN known \subseteq 1 .. serials
  /\ \A n \in DOMAIN known : Exists(Master(known[n].of))
  /\ context \in [DOMAIN context -> ContextType(serials)]
  /\ HomesOnly /\ ActiveIsKnown /\ ActiveIsOwn

\* Slots go with their contexts, and no context lacks one while there are free ones.
SlotsOK ==
  /\ owned \subseteq DOMAIN context /\ Cardinality(owned) <= PoolSize
  /\ exhausted \/ owned = DOMAIN context

SlotsInv == SlotsOK /\ exhausted \in BOOLEAN

\* The list of fingerprints has no key twice, and so has the file, which is as its
\* latest writing has left it.
KnownTypes ==
  /\ known \in [DOMAIN known -> Line]
  /\ serials \in Nat /\ DOMAIN known \subseteq 1 .. serials
StoredTypes == file \subseteq Line /\ IsFiniteSet(file)

KnownInv ==
  /\ KnownTypes
  /\ \A m, n \in DOMAIN known :
       known[m].of = known[n].of /\ known[m].key = known[n].key => m = n

FileInv ==
  /\ StoredTypes
  /\ \A l, m \in file : l.of = m.of /\ l.key = m.key => l = m
  /\ saved \in {"done", "unopened", "cut"}
  /\ saved = "done" => file = Lines(known)
  /\ saved = "cut" => file \subseteq Lines(known)

\* The list has the trust that the user gave, whether the program runs or not.
Trusts(f, x, k) == \E n \in DOMAIN f : f[n].of = x /\ f[n].key = k /\ f[n].trusted
TrustInv ==
  \A x \in Correspondents, k \in Keys :
    <<x, k>> \notin unsure => (<<x, k>> \in approved <=> Trusts(known, x, k))

\* A dialog is about a context that is there, until the context is forgotten.
DialogInv ==
  dialog # Closed =>
    /\ dialog \in [on : AllContexts, shown : Keys, fresh : BOOLEAN]
    /\ dialog.fresh => Exists(dialog.on)

\* Only masters with a tag have a D-H Commit sent.
CommitInv ==
  \A x \in Correspondents :
    waiting[x] # "no" => x \notin Old /\ Populated(Master(x))

TimerInv ==
  /\ waiting \in [Correspondents -> {"no", "recent", "stale"}]
  /\ (timer_running = 0) => ~otrl_timer_set

\* While the program runs, the file of the tags has them all, and the file of the
\* keys has them all or can not be read.
AccountsInv ==
  /\ privkeys = keyfile \/ keyfile = {}
  /\ running => instags = tagfile

\* A tag that is not stray is the account's.
TagInv ==
  /\ our_instance \in [DOMAIN context -> {"none", "tag", "stray"}]
  /\ running => \A c \in DOMAIN our_instance :
                  our_instance[c] = "tag" => AccountOf[c[1]] \in instags

IInv ==
  /\ ContextsInv /\ SlotsInv
  /\ KnownInv /\ FileInv /\ TrustInv
  /\ DialogInv /\ CommitInv /\ TimerInv
  /\ Own!TypeOK /\ AccountsInv
  /\ TagInv /\ OneTag
-----------------------------------------------------------------------------
(* The accounts.                                                           *)

\* MakeKey and MakeTag as NeedKey and Populate use them: the program ends if the
\* file is cut off.
LEMMA MakingKeepsAccounts ==
  ASSUME AccountsInv, Own!TypeOK, running,
         NEW a \in Accounts, NEW outcome,
         Own!MakeKey(a, outcome) \/ Own!MakeTag(a, outcome), Survives(outcome)
  PROVE  /\ AccountsInv' /\ Own!TypeOK'
         /\ privkeys \subseteq privkeys' \/ keyfile = {}
         /\ instags \subseteq instags' /\ refused \subseteq refused'
<1>1. CASE Own!MakeKey(a, outcome)
  <2>1. CASE outcome = "done"
    BY <1>1, <2>1 DEF Own!MakeKey, Own!TypeOK, Own!Rewritten,
                      Survives, AccountsInv
  <2>2. CASE outcome = "unopened"
    BY <1>1, <2>2 DEF Own!MakeKey, Own!TypeOK, Survives, AccountsInv
  <2>3. CASE outcome = "cut"
    BY <1>1, <2>3 DEF Own!MakeKey, Own!TypeOK, Survives, AccountsInv
  <2> QED  BY <1>1, <2>1, <2>2, <2>3 DEF Own!MakeKey
<1>2. CASE Own!MakeTag(a, outcome)
  <2>1. CASE outcome = "done"
    BY <1>2, <2>1 DEF Own!MakeTag, Own!TypeOK, Survives, AccountsInv
  <2>2. CASE outcome = "unopened"
    BY <1>2, <2>2 DEF Own!MakeTag, Own!TypeOK, Survives, AccountsInv
  <2>3. CASE outcome = "cut"
    BY <1>2, <2>3 DEF Own!MakeTag, Own!TypeOK, Survives, AccountsInv
  <2> QED  BY <1>2, <2>1, <2>2, <2>3 DEF Own!MakeTag
<1> QED  BY <1>1, <1>2

\* What a step does that makes neither keys nor tags.
LEMMA UserStepKeepsAccounts ==
  ASSUME AccountsInv, Own!TypeOK, UserStep, UNCHANGED accounts
  PROVE  AccountsInv' /\ Own!TypeOK'
<1>1. UserStep => running
  BY Zenon DEF UserStep, StepOf, GoEncrypted, SendCommit, ReceiveCommit, ReceiveKey, Age,
         CloseContext, End, OpenDialog, ForgetFingerprint, CloseDialog,
         CancelDialog, Poll, Happens
<1> QED  BY <1>1, SMTT(30) DEF accounts, AccountsInv, Own!TypeOK

LEMMA AccountsStep ==
  ASSUME AccountsInv, Own!TypeOK, [NextAll]_allVars
  PROVE  AccountsInv' /\ Own!TypeOK'
<1>1. CASE UserStep /\ Tagged /\ UNCHANGED accounts
  BY <1>1, UserStepKeepsAccounts
<1>2. ASSUME NEW x \in Correspondents, NeedKey(x)
      PROVE  AccountsInv' /\ Own!TypeOK'
  BY <1>2, MakingKeepsAccounts, EveryContextHasAccount DEF NeedKey
<1>3. ASSUME NEW x \in Correspondents, NEW c \in ContextsOf(x), Populate(c)
      PROVE  AccountsInv' /\ Own!TypeOK'
  <2>1. AccountOf[c[1]] \in Accounts /\ running
    BY <1>3, EveryContextHasAccount DEF ContextsOf, Master, Instance, Populate
  <2>2. CASE UNCHANGED <<accounts, events, running>>
    BY <2>2 DEF accounts, AccountsInv, Own!TypeOK
  <2> QED  BY <1>3, <2>1, <2>2, MakingKeepsAccounts DEF Populate
<1>4. CASE RestartAll
  BY <1>4 DEF RestartAll, Restart, Own!Read, AccountsInv, Own!TypeOK
<1>5. CASE UNCHANGED allVars
  BY <1>5 DEF allVars, vars, accounts, AccountsInv, Own!TypeOK
<1> QED  BY <1>1, <1>2, <1>3, <1>4, <1>5 DEF NextAll
-----------------------------------------------------------------------------
(* The slots.                                                              *)

LEMMA CountingParts ==
  ASSUME NEW S, NEW T, IsFiniteSet(S), IsFiniteSet(T), S \cap T = {}
  PROVE  Cardinality(S \cup T) = Cardinality(S) + Cardinality(T)
<1>1. Cardinality(S \cap T) = 0
  BY FS_EmptySet
<1>2. Cardinality(S) \in Nat /\ Cardinality(T) \in Nat
  BY FS_CardinalityType
<1>3. Cardinality(S \cup T) = Cardinality(S) + Cardinality(T) - Cardinality(S \cap T)
  BY FS_Union
<1> QED  BY <1>1, <1>2, <1>3

LEMMA SlotsStep ==
  ASSUME SlotsOK, IsFiniteSet(DOMAIN context), exhausted \in BOOLEAN,
         NEW f, IsFiniteSet(DOMAIN f), Contexts(f)
  PROVE  context' = f /\ SlotsOK' /\ exhausted' \in BOOLEAN
<1> DEFINE new == DOMAIN f \ DOMAIN context
           kept == Kept(f)
           free == PoolSize - Cardinality(kept)
<1>1. context' = f /\ exhausted' = (exhausted \/ Cardinality(DOMAIN f) > PoolSize)
  BY DEF Contexts
<1>2. PICK s \in SUBSET new :
        /\ owned' = kept \cup s
        /\ Cardinality(s) = IF Cardinality(new) < free THEN Cardinality(new) ELSE free
  BY DEF Contexts, SlotsFor
<1>3. IsFiniteSet(new) /\ IsFiniteSet(kept) /\ IsFiniteSet(s) /\ IsFiniteSet(owned)
  BY FS_Subset, FS_Difference DEF Kept, SlotsOK
<1>4. /\ Cardinality(new) \in Nat /\ Cardinality(kept) \in Nat
      /\ Cardinality(s) \in Nat /\ Cardinality(owned) \in Nat
      /\ Cardinality(DOMAIN f) \in Nat /\ PoolSize \in Nat
  BY <1>3, FS_CardinalityType, BoundsAreNat
<1>5. kept \cap s = {} /\ kept \subseteq DOMAIN f /\ kept \subseteq owned
  BY DEF Kept, SlotsOK
<1>6. Cardinality(kept) <= Cardinality(owned) /\ Cardinality(owned) <= PoolSize
  BY <1>3, <1>5, FS_Subset DEF SlotsOK
<1>7. Cardinality(kept \cup s) = Cardinality(kept) + Cardinality(s)
  BY <1>3, <1>5, CountingParts
<1>8. Cardinality(owned') <= PoolSize
  BY <1>2, <1>4, <1>6, <1>7
<1>9. owned' \subseteq DOMAIN f
  BY <1>2, <1>5
<1>10. ~exhausted' => owned' = DOMAIN f
  <2> SUFFICES ASSUME ~exhausted'
               PROVE  owned' = DOMAIN f
    OBVIOUS
  <2>1. ~exhausted /\ ~(Cardinality(DOMAIN f) > PoolSize)
    BY <1>1, Zenon
  <2>2. kept \cup new = DOMAIN f /\ kept \cap new = {}
    BY <2>1 DEF SlotsOK, Kept
  <2>3. Cardinality(DOMAIN f) = Cardinality(kept) + Cardinality(new)
    BY <1>3, <2>2, CountingParts
  <2>4. Cardinality(s) = Cardinality(new)
    BY <1>2, <1>4, <2>1, <2>3
  <2>5. s = new
    BY <1>3, <2>4, FS_Subset
  <2> QED  BY <1>2, <2>2, <2>5
<1> QED  BY <1>1, <1>8, <1>9, <1>10 DEF SlotsOK
-----------------------------------------------------------------------------
(* The contexts.                                                           *)

LEMMA Named ==
  ASSUME NEW x \in Correspondents
  PROVE  /\ \A c \in ContextsOf(x) : c[1] = x /\ c \in AllContexts
         /\ Master(x) # Instance(x) /\ Master(x)[1] = x /\ Instance(x)[1] = x
         /\ Master(x) \in Masters /\ Instance(x) \notin Masters
         /\ Master(x) \in ContextsOf(x) /\ Instance(x) \in ContextsOf(x)
         /\ Home(x) \in ContextsOf(x) /\ Home(x)[1] = x
         /\ Home(x) \in Masters \/ x \notin Old
         /\ x \notin Old => Home(x) = Instance(x) /\ Home(x) # Master(x)
BY DEF ContextsOf, AllContexts, Master, Instance, Masters, Home

LEMMA NamedFor ==
  ASSUME NEW c \in AllContexts
  PROVE  c[1] \in Correspondents /\ c \in ContextsOf(c[1])
<1>1. PICK x \in Correspondents : c \in ContextsOf(x)
  BY DEF AllContexts
<1> QED  BY <1>1, Named

\* What a step may make of the contexts, one by one: a context stays as it was,
\* is new or has lost its session, or is a home.
Moved(c) ==
  \/ Exists(c) /\ context'[c] = context[c]
  \/ context'[c] = NewContext
  \/ /\ c = Home(c[1])
     /\ \/ context'[c] = [msgstate |-> "FINISHED", active |-> NULL]
        \/ Exists(c) /\ context'[c] = [context[c] EXCEPT !.msgstate = "PLAINTEXT"]
        \/ \E n \in DOMAIN known' :
             /\ known'[n].of = c[1]
             /\ context'[c] = [msgstate |-> "ENCRYPTED", active |-> n]

Moves ==
  /\ context' = [c \in DOMAIN context' |-> context'[c]]
  /\ Places(context')
  /\ \A c \in DOMAIN context' : Moved(c)

\* What it may make of the fingerprints: serial numbers are not used again, and
\* those in use by a private conversation stay.
Relists ==
  /\ serials' \in Nat /\ serials <= serials'
  /\ DOMAIN known' \subseteq 1 .. serials'
  /\ \A n \in DOMAIN known' :
       /\ Master(known'[n].of) \in DOMAIN context'
       /\ n \in DOMAIN known => known'[n].of = known[n].of
       /\ n \notin DOMAIN known => serials < n
  /\ \A c \in DOMAIN context' :
       Exists(c) /\ context'[c] = context[c] /\ context[c].msgstate = "ENCRYPTED"
         => context[c].active \in DOMAIN known'

LEMMA MovesKeepContexts ==
  ASSUME ContextsInv, Moves, Relists
  PROVE  ContextsInv'
<1> DEFINE Fits(c) ==
             /\ context'[c] \in ContextType(serials')
             /\ c # Home(c[1]) => context'[c] = NewContext
             /\ context'[c].msgstate = "ENCRYPTED" => context'[c].active \in DOMAIN known'
             /\ context'[c].msgstate = "FINISHED" => context'[c].active = NULL
             /\ context'[c].active \in DOMAIN known'
                  => known'[context'[c].active].of = c[1]
<1>1. ASSUME NEW c \in DOMAIN context'
      PROVE  Fits(c)
  <2>1. CASE Exists(c) /\ context'[c] = context[c]
    <3>1. /\ context[c] \in ContextType(serials)
          /\ c # Home(c[1]) => context[c] = NewContext
          /\ context[c].msgstate = "FINISHED" => context[c].active = NULL
          /\ Alive(c) => known[context[c].active].of = c[1]
      BY <2>1 DEF ContextsInv, Exists, HomesOnly, ActiveIsKnown, ActiveIsOwn
    <3> QED  BY <2>1, <3>1 DEF Relists, ContextsInv, ContextType, Alive, Exists
  <2>2. CASE context'[c] = NewContext
    BY <2>2 DEF NewContext, ContextType, NULL, Relists
  <2>3. CASE c = Home(c[1]) /\ context'[c] = [msgstate |-> "FINISHED", active |-> NULL]
    BY <2>3 DEF ContextType, NULL, Relists
  <2>4. CASE /\ c = Home(c[1]) /\ Exists(c)
             /\ context'[c] = [context[c] EXCEPT !.msgstate = "PLAINTEXT"]
    <3>1. /\ context[c] \in ContextType(serials)
          /\ Alive(c) => known[context[c].active].of = c[1]
      BY <2>4 DEF ContextsInv, Exists, ActiveIsOwn
    <3>2. /\ context'[c].active = context[c].active
          /\ context'[c].msgstate = "PLAINTEXT"
          /\ context'[c] \in ContextType(serials')
      BY <2>4, <3>1 DEF ContextType, Relists, ContextsInv
    <3> QED  BY <2>4, <3>1, <3>2 DEF Relists, ContextsInv, ContextType, Alive, Exists
  <2>5. ASSUME NEW n \in DOMAIN known', known'[n].of = c[1], c = Home(c[1]),
               context'[c] = [msgstate |-> "ENCRYPTED", active |-> n]
        PROVE  Fits(c)
    BY <2>5 DEF ContextType, Relists
  <2> QED  BY <2>1, <2>2, <2>3, <2>4, <2>5 DEF Moves, Moved
<1>2. context' \in [DOMAIN context' -> ContextType(serials')]
  BY <1>1 DEF Moves
<1>3. HomesOnly' /\ ActiveIsKnown' /\ ActiveIsOwn'
  BY <1>1 DEF HomesOnly, ActiveIsKnown, ActiveIsOwn, Alive, Exists, Moves, Places
<1>4. /\ serials' \in Nat /\ DOMAIN known' \subseteq 1 .. serials'
      /\ \A n \in DOMAIN known' : Exists(Master(known[n].of))'
  BY DEF Relists, Exists
<1> QED  BY <1>2, <1>3, <1>4 DEF Moves, Places, ContextsInv

LEMMA WithFacts ==
  ASSUME NEW f, NEW d, NEW v
  PROVE  /\ DOMAIN With(f, d, v) = DOMAIN f \cup {d}
         /\ With(f, d, v) = [e \in DOMAIN f \cup {d} |-> With(f, d, v)[e]]
         /\ With(f, d, v)[d] = v
         /\ \A e \in DOMAIN f : e # d => With(f, d, v)[e] = f[e]
BY DEF With

\* otrl_context_find: nothing but new contexts, which are all alike, since a master
\* with an instance is not private.
LEMMA AddedFacts ==
  ASSUME ContextsInv, NEW x \in Correspondents, NEW c \in ContextsOf(x),
         c \in Masters \/ x \notin Old
  PROVE  /\ Added(c) = [d \in DOMAIN Added(c) |-> Added(c)[d]]
         /\ DOMAIN Added(c) = DOMAIN context \cup {Master(x), c}
         /\ Places(Added(c))
         /\ \A d \in DOMAIN Added(c) :
              Added(c)[d] = IF Exists(d) THEN context[d] ELSE NewContext
<1> DEFINE m == Master(x)
           f == IF Exists(m) THEN context ELSE With(context, m, NewContext)
           g == With(f, c, [NewContext EXCEPT !.msgstate = f[m].msgstate])
<1>1. c[1] = x /\ {c, m} \subseteq AllContexts /\ m[1] = x /\ m \in Masters
  BY Named
<1>2. /\ context = [d \in DOMAIN context |-> context[d]] /\ Places(context)
  BY DEF ContextsInv
<1>3. /\ DOMAIN f = DOMAIN context \cup {m}
      /\ f = [d \in DOMAIN f |-> f[d]]
      /\ \A d \in DOMAIN f : f[d] = IF Exists(d) THEN context[d] ELSE NewContext
  <2>1. CASE Exists(m)
    BY <1>2, <2>1 DEF Exists
  <2>2. CASE ~Exists(m)
    <3>1. f = With(context, m, NewContext)
      BY <2>2
    <3>2. m \notin DOMAIN context
      BY <2>2 DEF Exists
    <3> HIDE DEF m, f
    <3>3. /\ DOMAIN f = DOMAIN context \cup {m}
          /\ f = [d \in DOMAIN context \cup {m} |-> f[d]]
          /\ f[m] = NewContext
          /\ \A d \in DOMAIN context : f[d] = context[d]
      BY <3>1, <3>2 DEF With
    <3> QED  BY <3>2, <3>3 DEF Exists
  <2> QED  BY <2>1, <2>2
<1>4. Added(c) = IF c \in DOMAIN f THEN f ELSE g
  BY <1>1 DEF Added
<1>5. c \notin DOMAIN f => f[m] = NewContext
  <2>1. c \notin DOMAIN f => x \notin Old
    BY <1>1, <1>3 DEF ContextsOf, Masters, Master, Instance
  <2>2. x \notin Old => m # Home(m[1])
    BY <1>1, Named DEF Home
  <2>3. x \notin Old /\ Exists(m) => context[m] = NewContext
    BY <2>2 DEF ContextsInv, HomesOnly, Exists
  <2> QED  BY <1>3, <2>1, <2>3
<1>6. c \notin DOMAIN f => [NewContext EXCEPT !.msgstate = f[m].msgstate] = NewContext
  BY <1>5 DEF NewContext
<1>7. c \notin DOMAIN f =>
        /\ DOMAIN g = DOMAIN f \cup {c}
        /\ g = [d \in DOMAIN g |-> g[d]]
        /\ g[c] = NewContext
        /\ \A d \in DOMAIN f : g[d] = f[d]
  <2> DEFINE v == [NewContext EXCEPT !.msgstate = f[m].msgstate]
  <2>1. g = With(f, c, v) /\ (c \notin DOMAIN f => v = NewContext)
    BY <1>6
  <2> HIDE DEF f, g, v
  <2> QED  BY <2>1, WithFacts
<1> HIDE DEF f, g
<1>8. /\ DOMAIN Added(c) = DOMAIN context \cup {m, c}
      /\ Added(c) = [d \in DOMAIN Added(c) |-> Added(c)[d]]
      /\ \A d \in DOMAIN Added(c) :
           Added(c)[d] = IF Exists(d) THEN context[d] ELSE NewContext
  <2>1. CASE c \in DOMAIN f
    BY <1>3, <1>4, <2>1
  <2>2. CASE c \notin DOMAIN f
    BY <1>3, <1>4, <1>7, <2>2 DEF Exists
  <2> QED  BY <2>1, <2>2
<1>9. Places(Added(c))
  <2>1. IsFiniteSet(DOMAIN context \cup {m, c})
    <3>1. DOMAIN context \cup {m, c} = (DOMAIN context \cup {m}) \cup {c}
      OBVIOUS
    <3> QED  BY <1>2, <3>1, FS_AddElement DEF Places
  <2>2. c \in Masters \/ c[1] \notin Old
    BY <1>1
  <2> QED  BY <1>1, <1>2, <1>8, <2>1, <2>2 DEF Places
<1> QED  BY <1>8, <1>9

LEMMA StillListed ==
  ASSUME ContextsInv, serials' = serials, DOMAIN known' = DOMAIN known,
         \A n \in DOMAIN known : known'[n].of = known[n].of,
         DOMAIN context \subseteq DOMAIN context'
  PROVE  Relists
BY DEF Relists, ContextsInv, ActiveIsKnown, Alive, Exists

LEMMA StillThere ==
  ASSUME ContextsInv, context' = context, serials' = serials,
         DOMAIN known' = DOMAIN known, \A n \in DOMAIN known : known'[n].of = known[n].of
  PROVE  Moves /\ Relists
<1>1. Moves
  BY DEF Moves, Moved, ContextsInv, Exists
<1> QED  BY <1>1, StillListed

LEMMA GrowingMoves ==
  ASSUME ContextsInv, NEW x \in Correspondents, NEW c \in ContextsOf(x),
         c \in Masters \/ x \notin Old, Contexts(Added(c)),
         UNCHANGED <<known, serials>>
  PROVE  Moves /\ Relists
<1>1. context' = Added(c)
  BY DEF Contexts
<1>2. Moves
  BY <1>1, AddedFacts DEF Moves, Moved
<1>3. Relists
  BY <1>1, AddedFacts, StillListed
<1> QED  BY <1>2, <1>3

LEMMA SecuringMoves ==
  ASSUME ContextsInv, KnownTypes, NEW x \in Correspondents, NEW k \in Keys,
         GoEncrypted(x, k)
  PROVE  Moves /\ Relists
<1> DEFINE c == Home(x)
           private(n) == [msgstate |-> "ENCRYPTED", active |-> n]
<1>1. c \in ContextsOf(x) /\ c[1] = x /\ (c \in Masters \/ x \notin Old)
  BY Named
<1>2. /\ Added(c) = [d \in DOMAIN Added(c) |-> Added(c)[d]]
      /\ c \in DOMAIN Added(c) /\ DOMAIN context \subseteq DOMAIN Added(c)
      /\ Master(x) \in DOMAIN Added(c)
      /\ Places(Added(c))
      /\ \A d \in DOMAIN Added(c) :
           Added(c)[d] = IF Exists(d) THEN context[d] ELSE NewContext
  BY <1>1, AddedFacts, ZenonT(40)
<1>3. ASSUME NEW n \in DOMAIN known', known'[n].of = x,
             context' = [Added(c) EXCEPT ![c] = private(n)]
      PROVE  Moves
  <2>1. DOMAIN context' = DOMAIN Added(c)
    BY <1>2, <1>3
  <2>2. Moved(c)
    BY <1>1, <1>2, <1>3 DEF Moved
  <2>3. ASSUME NEW d \in DOMAIN context', d # c
        PROVE  Moved(d)
    BY <1>2, <1>3, <2>1, <2>3 DEF Moved
  <2>4. context' = [d \in DOMAIN context' |-> context'[d]]
    BY <1>2, <1>3
  <2> QED  BY <1>2, <2>1, <2>2, <2>3, <2>4 DEF Moves, Places
<1>4. ASSUME NEW n \in Fingerprints(x), UNCHANGED <<known, serials>>,
             Contexts([Added(c) EXCEPT ![c] = private(n)])
      PROVE  Moves /\ Relists
  <2>1. n \in DOMAIN known' /\ known'[n].of = x
    BY <1>4 DEF Fingerprints
  <2>2. context' = [Added(c) EXCEPT ![c] = private(n)]
    BY <1>4 DEF Contexts
  <2>3. DOMAIN context \subseteq DOMAIN context'
    BY <1>2, <2>2
  <2> QED  BY <1>3, <1>4, <2>1, <2>2, <2>3, StillListed
<1>5. ASSUME serials' = serials + 1,
             known' = With(known, serials', [of |-> x, key |-> k, trusted |-> FALSE]),
             Contexts([Added(c) EXCEPT ![c] = private(serials')])
      PROVE  Moves /\ Relists
  <2>1. /\ DOMAIN known' = DOMAIN known \cup {serials'}
        /\ known'[serials'].of = x
        /\ \A n \in DOMAIN known : known'[n] = known[n]
        /\ serials' \in Nat /\ serials < serials' /\ serials' \notin DOMAIN known
        /\ DOMAIN known' \subseteq 1 .. serials'
    BY <1>5 DEF With, KnownTypes
  <2>2. context' = [Added(c) EXCEPT ![c] = private(serials')]
    BY <1>5 DEF Contexts
  <2>3. DOMAIN context \subseteq DOMAIN context' /\ Master(x) \in DOMAIN context'
    BY <1>2, <2>2
  <2>4. \A n \in DOMAIN known : Master(known[n].of) \in DOMAIN context'
    BY <2>3 DEF ContextsInv, Exists
  <2>5. \A d \in DOMAIN context :
          context[d].msgstate = "ENCRYPTED" => context[d].active \in DOMAIN known'
    BY <2>1 DEF ContextsInv, ActiveIsKnown, Alive
  <2> HIDE DEF c
  <2>6. Relists
    BY <2>1, <2>3, <2>4, <2>5 DEF Relists, Exists, KnownTypes
  <2> QED  BY <1>3, <2>1, <2>2, <2>6
<1> QED  BY <1>4, <1>5 DEF GoEncrypted

LEMMA ReceivingKeyMoves ==
  ASSUME ContextsInv, CommitInv, NEW x \in Correspondents, ReceiveKey(x)
  PROVE  Moves /\ Relists
<1> DEFINE c == Instance(x)
           m == Master(x)
<1>1. x \notin Old /\ Exists(m)
  BY DEF ReceiveKey, CommitInv, Populated
<1>2. /\ c \in ContextsOf(x) /\ c[1] = x /\ m[1] = x /\ m # c
      /\ c = Home(c[1]) /\ m # Home(m[1])
  BY <1>1, Named
<1>3. context[m] = NewContext
  BY <1>1, <1>2 DEF ContextsInv, HomesOnly, Exists
<1>4. /\ Added(c) = [d \in DOMAIN Added(c) |-> Added(c)[d]]
      /\ DOMAIN Added(c) = DOMAIN context \cup {m, c}
      /\ Places(Added(c))
      /\ \A d \in DOMAIN Added(c) :
           Added(c)[d] = IF Exists(d) THEN context[d] ELSE NewContext
  BY <1>1, <1>2, AddedFacts
<1>5. Added(c)[m].msgstate = "PLAINTEXT"
  BY <1>1, <1>3, <1>4 DEF NewContext, Exists
<1>6. context' = [Added(c) EXCEPT ![c].msgstate = "PLAINTEXT"]
  BY <1>5 DEF ReceiveKey, Contexts
<1>7. /\ DOMAIN context' = DOMAIN Added(c)
      /\ context' = [d \in DOMAIN context' |-> context'[d]]
      /\ context'[c] = [Added(c)[c] EXCEPT !.msgstate = "PLAINTEXT"]
      /\ \A d \in DOMAIN context' : d # c => context'[d] = Added(c)[d]
  BY <1>4, <1>6
<1>8. Moved(c)
  BY <1>2, <1>4, <1>7 DEF Moved, NewContext
<1>9. \A d \in DOMAIN context' : Moved(d)
  BY <1>4, <1>7, <1>8 DEF Moved
<1>10. Moves
  BY <1>4, <1>7, <1>9 DEF Moves, Places
<1>11. Relists
  BY <1>4, <1>7, StillListed DEF ReceiveKey, unchangedKeys
<1> QED  BY <1>10, <1>11

LEMMA EndingMoves ==
  ASSUME ContextsInv, NEW x \in Correspondents, NEW c \in ContextsOf(x),
         NEW state, End(c, state)
  PROVE  Moves /\ Relists /\ UNCHANGED <<known, serials>>
<1>1. /\ Exists(c) /\ c[1] = x
      /\ context' = [context EXCEPT ![c] = [msgstate |-> state, active |-> NULL]]
      /\ UNCHANGED <<known, serials>>
  BY Named DEF End, Forced, unchangedKeys
<1>2. /\ context = [d \in DOMAIN context |-> context[d]] /\ Places(context)
  BY DEF ContextsInv
<1>3. /\ DOMAIN context' = DOMAIN context
      /\ context' = [d \in DOMAIN context' |-> context'[d]]
      /\ context'[c] = [msgstate |-> state, active |-> NULL]
      /\ \A d \in DOMAIN context : d # c => context'[d] = context[d]
  BY <1>1, <1>2 DEF Exists
<1>4. Moved(c)
  <2>1. CASE state = "PLAINTEXT"
    BY <1>3, <2>1 DEF Moved, NewContext
  <2>2. CASE state = "FINISHED" /\ context[c].msgstate = "ENCRYPTED"
    <3>1. c = Home(c[1])
      BY <1>1, <2>2 DEF ContextsInv, HomesOnly, NewContext, Exists
    <3> QED  BY <1>3, <2>2, <3>1 DEF Moved
  <2> QED  BY <2>1, <2>2 DEF End
<1>5. \A d \in DOMAIN context' : Moved(d)
  BY <1>3, <1>4 DEF Moved, Exists
<1> QED  BY <1>1, <1>2, <1>3, <1>5, StillListed DEF Moves, Places

LEMMA OneLessListed ==
  ASSUME KnownTypes, NEW n, serials' = serials,
         DOMAIN known' = DOMAIN known \ {n},
         \A k \in DOMAIN known' : known'[k] = known[k],
         \A k \in DOMAIN known' : Master(known'[k].of) \in DOMAIN context',
         \A c \in DOMAIN context : context[c].msgstate = "ENCRYPTED"
           => context[c].active \in DOMAIN known'
  PROVE  Relists
<1>1. serials' \in Nat /\ serials <= serials' /\ DOMAIN known' \subseteq 1 .. serials'
  BY DEF KnownTypes
<1>2. \A k \in DOMAIN known' : k \in DOMAIN known /\ known'[k].of = known[k].of
  OBVIOUS
<1>3. \A c \in DOMAIN context' :
       Exists(c) /\ context'[c] = context[c] /\ context[c].msgstate = "ENCRYPTED"
         => context[c].active \in DOMAIN known'
  BY DEF Exists
<1> QED  BY <1>1, <1>2, <1>3 DEF Relists

\* A private conversation keeps the fingerprint it uses, and the fingerprints that
\* are left keep their masters.
LEMMA ForgettingMoves ==
  ASSUME ContextsInv, KnownTypes, NEW n, ForgetFingerprint(n)
  PROVE  Moves /\ Relists
<1> DEFINE x == known[n].of
<1>1. n \in DOMAIN known /\ x \in Correspondents /\ Forgettable(n) /\ serials' = serials
  BY DEF ForgetFingerprint, KnownTypes, Line
<1>2. CASE UNCHANGED <<known, context>>
  BY <1>1, <1>2, StillThere
<1>3. ASSUME known' = Restrict(known, DOMAIN known \ {n})
      PROVE  /\ DOMAIN known' = DOMAIN known \ {n}
             /\ \A k \in DOMAIN known' : known'[k] = known[k]
             /\ \A c \in DOMAIN context : context[c].msgstate = "ENCRYPTED"
                  => context[c].active \in DOMAIN known'
  <2>1. DOMAIN known' = DOMAIN known \ {n} /\ \A k \in DOMAIN known' : known'[k] = known[k]
    BY <1>3 DEF Restrict
  <2>2. ASSUME NEW c \in DOMAIN context, context[c].msgstate = "ENCRYPTED"
        PROVE  context[c].active \in DOMAIN known \ {n}
    <3>1. context[c].active \in DOMAIN known /\ known[context[c].active].of = c[1]
      BY <2>2 DEF ContextsInv, ActiveIsKnown, ActiveIsOwn, Alive
    <3>2. ASSUME context[c].active = n
          PROVE  FALSE
      <4>1. c[1] = x
        BY <3>1, <3>2
      <4>2. PICK y \in Correspondents : c \in ContextsOf(y)
        BY DEF ContextsInv, Places, AllContexts
      <4>3. c \in ContextsOf(x)
        BY <4>1, <4>2, Named
      <4> QED  BY <1>1, <2>2, <3>2, <4>3 DEF Forgettable, Exists
    <3> QED  BY <3>1, <3>2
  <2> QED  BY <2>1, <2>2
<1>4. CASE known' = Restrict(known, DOMAIN known \ {n}) /\ context' = context
  <2>1. Moves
    BY <1>4 DEF Moves, Moved, ContextsInv, Exists
  <2>2. Relists
    <3>1. \A k \in DOMAIN known' : Master(known'[k].of) \in DOMAIN context'
      BY <1>3, <1>4 DEF ContextsInv, Exists
    <3> QED  BY <1>1, <1>3, <1>4, <3>1, OneLessListed
  <2> QED  BY <2>1, <2>2
<1>5. CASE /\ known' = Restrict(known, DOMAIN known \ {n})
           /\ Fingerprints(x) = {n}
           /\ context' = Restrict(context, DOMAIN context \ ContextsOf(x))
  <2>1. /\ DOMAIN context' = DOMAIN context \ ContextsOf(x)
        /\ context' = [c \in DOMAIN context' |-> context'[c]]
        /\ \A c \in DOMAIN context' : context'[c] = context[c]
    BY <1>5 DEF Restrict
  <2>2. ASSUME NEW y \in Correspondents, y # x, Exists(Master(y))
        PROVE  Master(y) \in DOMAIN context'
    <3>1. Master(y) \notin ContextsOf(x)
      BY <1>1, <2>2, Named
    <3> QED  BY <2>1, <2>2, <3>1 DEF Exists
  <2>3. Places(context')
    <3>1. IsFiniteSet(DOMAIN context')
      <4>1. IsFiniteSet(DOMAIN context)
        BY DEF ContextsInv, Places
      <4> QED  BY <2>1, <4>1, FS_Difference
    <3>2. ASSUME NEW c \in DOMAIN context'
          PROVE  Master(c[1]) \in DOMAIN context'
      <4>1. PICK y \in Correspondents : c \in ContextsOf(y)
        BY <2>1 DEF ContextsInv, Places, AllContexts
      <4>2. c[1] = y /\ y # x /\ Exists(Master(y))
        BY <2>1, <4>1, Named DEF ContextsInv, Places, Exists
      <4> QED  BY <2>2, <4>2
    <3> QED  BY <2>1, <3>1, <3>2 DEF Places, ContextsInv
  <2>4. Moves
    BY <2>1, <2>3 DEF Moves, Moved, Exists
  <2>5. ASSUME NEW k \in DOMAIN known'
        PROVE  Master(known'[k].of) \in DOMAIN context'
    <3>1. k \in DOMAIN known /\ k # n /\ known'[k] = known[k]
      BY <1>3, <1>5
    <3>2. known[k].of # x
      BY <1>5, <3>1 DEF Fingerprints
    <3>3. known[k].of \in Correspondents /\ Exists(Master(known[k].of))
      BY <3>1 DEF KnownTypes, Line, ContextsInv
    <3> QED  BY <2>2, <3>1, <3>2, <3>3
  <2>6. Relists
    BY <1>1, <1>3, <1>5, <2>5, OneLessListed
  <2> QED  BY <2>4, <2>6
<1>6. \/ UNCHANGED <<known, context>>
      \/ known' = Restrict(known, DOMAIN known \ {n}) /\ context' = context
      \/ /\ known' = Restrict(known, DOMAIN known \ {n})
         /\ Fingerprints(x) = {n}
         /\ context' = Restrict(context, DOMAIN context \ ContextsOf(x))
  BY DEF ForgetFingerprint, Contexts, unchangedContexts
<1> QED  BY <1>2, <1>4, <1>5, <1>6

\* otrl_privkey_read_fingerprints lists every line of the file just once.
LEMMA Reading ==
  ASSUME Restart, IsFiniteSet(file), serials \in Nat
  PROVE  /\ Cardinality(file) \in Nat
         /\ known' \in [serials + 1 .. serials + Cardinality(file) -> file]
         /\ Lines(known') = file
         /\ \A m, n \in DOMAIN known' : known'[m] = known'[n] => m = n
<1> DEFINE n == Cardinality(file)
           S == serials + 1 .. serials + n
<1>1. n \in Nat
  BY FS_CardinalityType
<1> HIDE DEF n
<1>2. IsFiniteSet(S) /\ Cardinality(S) = n
  <2>1. serials + 1 \in Int /\ serials + n \in Int
    BY <1>1
  <2>2. /\ IsFiniteSet(S)
        /\ Cardinality(S) = IF serials + 1 > serials + n THEN 0
                            ELSE (serials + n) - (serials + 1) + 1
    BY <2>1, FS_Interval
  <2> QED  BY <1>1, <2>2
<1> HIDE DEF S
<1>3. ExistsBijection(S, file)
  BY <1>2, FS_SameCardinalityBij DEF n
<1>4. \E f \in [S -> file] : Lines(f) = file
  <2>1. PICK f \in Bijection(S, file) : TRUE
    BY <1>3 DEF ExistsBijection
  <2>2. f \in [S -> file] /\ \A t \in file : \E s \in S : f[s] = t
    BY <2>1 DEF Bijection, Surjection
  <2>3. Lines(f) = file
    BY <2>2 DEF Lines, Range
  <2> QED  BY <2>2, <2>3
<1>5. known' = CHOOSE f \in [S -> file] : Lines(f) = file
  BY DEF Restart, S, n
<1>6. known' \in [S -> file] /\ Lines(known') = file
  BY <1>4, <1>5
<1>7. known' \in Surjection(S, file)
  BY <1>6 DEF Lines, Range, Surjection
<1>8. known' \in Injection(S, file)
  BY <1>2, <1>7, FS_SurjSameCardinalityImpliesInj DEF n
<1>9. \A m, k \in DOMAIN known' : known'[m] = known'[k] => m = k
  BY <1>6, <1>8 DEF Injection, IsInjective
<1> QED  BY <1>1, <1>6, <1>9 DEF S, n

LEMMA RestartingMoves ==
  ASSUME ContextsInv, StoredTypes, Restart
  PROVE  Moves /\ Relists
<1> DEFINE masters == {Master(line.of) : line \in file}
<1>1. context' = [m \in masters |-> NewContext] /\ serials' = serials + Cardinality(file)
  BY DEF Restart
<1>2. IsFiniteSet(masters)
  <2>1. [line \in file |-> Master(line.of)] \in Surjection(file, masters)
    BY DEF Surjection
  <2> QED  BY <2>1, FS_Surjection DEF StoredTypes
<1>3. \A m \in masters : m \in AllContexts /\ m \in Masters /\ Master(m[1]) = m
  BY Named DEF StoredTypes, Line
<1>4. Moves
  BY <1>1, <1>2, <1>3 DEF Moves, Moved, Places
<1>5. /\ Cardinality(file) \in Nat
      /\ known' \in [serials + 1 .. serials + Cardinality(file) -> file]
  BY Reading DEF ContextsInv, StoredTypes
<1>6. serials \in Nat /\ DOMAIN known \subseteq 1 .. serials
  BY DEF ContextsInv
<1>7. serials' \in Nat /\ serials <= serials' /\ DOMAIN known' \subseteq 1 .. serials'
  BY <1>1, <1>5, <1>6
<1>8. \A n \in DOMAIN known' :
        Master(known'[n].of) \in DOMAIN context' /\ n \notin DOMAIN known /\ serials < n
  BY <1>1, <1>5, <1>6
<1>9. \A c \in DOMAIN context' : context'[c].msgstate = "PLAINTEXT"
  BY <1>1 DEF NewContext
<1> QED  BY <1>4, <1>7, <1>8, <1>9 DEF Relists

\* Which key is trusted has no part in it.
LEMMA TrustingMoves ==
  ASSUME ContextsInv, KnownTypes, NEW approval \in BOOLEAN, CloseDialog(approval)
  PROVE  Moves /\ Relists
<1>1. context' = context /\ serials' = serials
  BY SMTT(20) DEF CloseDialog, unchangedContexts
<1>2. DOMAIN known' = DOMAIN known /\ \A n \in DOMAIN known : known'[n].of = known[n].of
  BY DEF CloseDialog, SetTrust, KnownTypes, Line
<1> QED  BY <1>1, <1>2, StillThere

LEMMA StepMoves ==
  ASSUME ContextsInv, KnownTypes, StoredTypes, CommitInv, [NextAll]_allVars
  PROVE  Moves /\ Relists
<1>1. ASSUME NEW x \in Correspondents, StepOf(x)
      PROVE  Moves /\ Relists
  <2>1. ASSUME NEW k \in Keys, GoEncrypted(x, k)
        PROVE  Moves /\ Relists
    BY <2>1, SecuringMoves
  <2>2. CASE SendCommit(x)
    <3>1. Contexts(Added(Master(x))) /\ UNCHANGED <<known, serials>>
      BY <2>2 DEF SendCommit, unchangedKeys
    <3> QED  BY <3>1, GrowingMoves, Named
  <2>3. CASE ReceiveCommit(x)
    <3>1. /\ Contexts(Added(Instance(x))) /\ UNCHANGED <<known, serials>>
          /\ x \notin Old
      BY <2>3 DEF ReceiveCommit, unchangedKeys
    <3> QED  BY <3>1, GrowingMoves, Named
  <2>4. CASE ReceiveKey(x)
    BY <2>4, ReceivingKeyMoves
  <2>5. CASE Age(x)
    <3>1. UNCHANGED <<context, known, serials>>
      BY <2>5 DEF Age, unchangedContexts, unchangedKeys
    <3> QED  BY <3>1, StillThere
  <2>6. ASSUME NEW c \in ContextsOf(x), CloseContext(c)
        PROVE  Moves /\ Relists
    BY <2>6, EndingMoves DEF CloseContext
  <2>7. ASSUME NEW c \in ContextsOf(x), OpenDialog(c)
        PROVE  Moves /\ Relists
    <3>1. UNCHANGED <<context, known, serials>>
      BY <2>7 DEF OpenDialog, unchangedContexts, unchangedKeys
    <3> QED  BY <3>1, StillThere
  <2> QED  BY <1>1, <2>1, <2>2, <2>3, <2>4, <2>5, <2>6, <2>7 DEF StepOf
<1>2. ASSUME NEW n \in DOMAIN known, ForgetFingerprint(n)
      PROVE  Moves /\ Relists
  BY <1>2, ForgettingMoves
<1>3. ASSUME NEW approval \in BOOLEAN, CloseDialog(approval)
      PROVE  Moves /\ Relists
  BY <1>3, TrustingMoves
<1>4. CASE CancelDialog \/ Poll
  <2>1. UNCHANGED <<context, known, serials>>
    BY <1>4 DEF CancelDialog, Poll, unchangedContexts, unchangedKeys
  <2> QED  BY <2>1, StillThere
<1>5. ASSUME NEW x \in Correspondents, NeedKey(x)
      PROVE  Moves /\ Relists
  <2>1. UNCHANGED <<context, known, serials>>
    BY <1>5 DEF NeedKey, unchangedContexts, unchangedKeys
  <2> QED  BY <2>1, StillThere
<1>6. ASSUME NEW x \in Correspondents, NEW c \in ContextsOf(x), Populate(c)
      PROVE  Moves /\ Relists
  <2>1. /\ Contexts(Added(c)) /\ UNCHANGED <<known, serials>>
        /\ c \in Masters \/ Exists(c)
    BY <1>6 DEF Populate, unchangedKeys
  <2>2. c \in Masters \/ x \notin Old
    BY <2>1, Named DEF ContextsInv, Places, Exists
  <2> QED  BY <2>1, <2>2, GrowingMoves
<1>7. CASE RestartAll
  BY <1>7, RestartingMoves DEF RestartAll
<1>8. CASE UNCHANGED allVars
  <2>1. UNCHANGED <<context, known, serials>>
    BY <1>8 DEF allVars, vars
  <2> QED  BY <2>1, StillThere
<1> QED  BY <1>1, <1>2, <1>3, <1>4, <1>5, <1>6, <1>7, <1>8 DEF NextAll, UserStep

LEMMA ContextsStep ==
  ASSUME ContextsInv, KnownTypes, StoredTypes, CommitInv, [NextAll]_allVars
  PROVE  ContextsInv'
BY StepMoves, MovesKeepContexts

LEMMA SlotsStay ==
  ASSUME ContextsInv, KnownTypes, StoredTypes, CommitInv, SlotsInv, [NextAll]_allVars
  PROVE  SlotsInv'
<1>1. IsFiniteSet(DOMAIN context) /\ IsFiniteSet(DOMAIN context')
  BY StepMoves DEF ContextsInv, Moves, Places
<1>2. ASSUME NEW f, Contexts(f)
      PROVE  SlotsInv'
  <2>1. context' = f
    BY <1>2 DEF Contexts
  <2> QED  BY <1>1, <1>2, <2>1, SlotsStep DEF SlotsInv
<1>3. CASE DOMAIN context' = DOMAIN context /\ UNCHANGED <<owned, exhausted>>
  BY <1>3 DEF SlotsInv, SlotsOK
<1>4. CASE Restart
  <2> DEFINE masters == {Master(line.of) : line \in file}
  <2>1. DOMAIN context' = masters /\ exhausted' = (Cardinality(masters) > PoolSize)
    BY <1>4 DEF Restart
  <2>2. /\ owned' \subseteq masters
        /\ Cardinality(owned') =
             IF Cardinality(masters) < PoolSize THEN Cardinality(masters) ELSE PoolSize
    BY <1>4 DEF Restart
  <2> HIDE DEF masters
  <2>3. IsFiniteSet(masters) /\ Cardinality(masters) \in Nat /\ PoolSize \in Nat
    BY <1>1, <2>1, FS_CardinalityType, BoundsAreNat
  <2>4. Cardinality(owned') <= PoolSize
    BY <2>2, <2>3
  <2>5. ~(Cardinality(masters) > PoolSize) => Cardinality(owned') = Cardinality(masters)
    BY <2>2, <2>3
  <2>6. ~(Cardinality(masters) > PoolSize) => owned' = masters
    BY <2>2, <2>3, <2>5, FS_Subset
  <2>7. exhausted' \in BOOLEAN
    BY <2>1
  <2>8. exhausted' \/ owned' = masters
    BY <2>1, <2>6, Zenon
  <2> QED  BY <2>1, <2>2, <2>4, <2>7, <2>8 DEF SlotsInv, SlotsOK
<1> DEFINE Taken == \/ \E f : Contexts(f)
                    \/ DOMAIN context' = DOMAIN context /\ UNCHANGED <<owned, exhausted>>
                    \/ Restart
<1>5. Taken
  <2>1. ASSUME NEW x \in Correspondents, StepOf(x)
        PROVE  Taken
    <3>1. ASSUME NEW c \in ContextsOf(x), CloseContext(c)
          PROVE  Taken
      BY <3>1 DEF CloseContext, End, Forced
    <3>2. ASSUME NEW k \in Keys, GoEncrypted(x, k)
          PROVE  Taken
      BY <3>2 DEF GoEncrypted
    <3>3. CASE SendCommit(x) \/ ReceiveCommit(x) \/ ReceiveKey(x)
      BY <3>3 DEF SendCommit, ReceiveCommit, ReceiveKey
    <3>4. CASE Age(x) \/ \E c \in ContextsOf(x) : OpenDialog(c)
      BY <3>4 DEF Age, OpenDialog, unchangedContexts
    <3> QED  BY <2>1, <3>1, <3>2, <3>3, <3>4 DEF StepOf
  <2>2. ASSUME NEW n \in DOMAIN known, ForgetFingerprint(n)
        PROVE  Taken
    BY <2>2 DEF ForgetFingerprint, unchangedContexts
  <2>3. CASE \/ \E approval \in BOOLEAN : CloseDialog(approval)
             \/ CancelDialog \/ Poll \/ UNCHANGED allVars
    BY <2>3 DEF CloseDialog, CancelDialog, Poll, unchangedContexts, allVars, vars
  <2>4. ASSUME NEW x \in Correspondents,
               NeedKey(x) \/ \E c \in ContextsOf(x) : Populate(c)
        PROVE  Taken
    BY <2>4 DEF NeedKey, Populate, unchangedContexts
  <2> QED  BY <2>1, <2>2, <2>3, <2>4 DEF NextAll, UserStep, RestartAll
<1> QED  BY <1>2, <1>3, <1>4, <1>5
-----------------------------------------------------------------------------
(* The list of fingerprints, its file, and the trust.                      *)

\* Writing the list that a step has left, or not writing an unchanged one.
LEMMA WritingKeepsFile ==
  ASSUME FileInv, KnownInv', Written(known')
  PROVE  FileInv'
<1>1. \A l \in Lines(known') : l \in Line
  BY DEF KnownInv, KnownTypes, Lines, Range
<1>2. \A l, m \in Lines(known') : l.of = m.of /\ l.key = m.key => l = m
  BY DEF KnownInv, Lines, Range
<1>3. IsFiniteSet(Lines(known'))
  <2>1. IsFiniteSet(DOMAIN known')
    <3>1. IsFiniteSet(1 .. serials')
      BY FS_Interval DEF KnownInv, KnownTypes
    <3> QED  BY <3>1, FS_Subset DEF KnownInv, KnownTypes
  <2>2. known' \in Surjection(DOMAIN known', Lines(known'))
    BY DEF Surjection, Lines, Range, KnownInv, KnownTypes
  <2> QED  BY <2>1, <2>2, FS_Surjection
<1>4. CASE saved' = "done" /\ file' = Lines(known')
  BY <1>1, <1>2, <1>3, <1>4 DEF FileInv, StoredTypes
<1>5. CASE saved' = "unopened" /\ file' = file
  BY <1>5 DEF FileInv, StoredTypes
<1>6. CASE saved' = "cut" /\ file' \in SUBSET Lines(known')
  BY <1>1, <1>2, <1>3, <1>6, FS_Subset DEF FileInv, StoredTypes
<1> QED  BY <1>4, <1>5, <1>6 DEF Written

LEMMA SameFile ==
  ASSUME FileInv, UNCHANGED <<known, file, saved>>
  PROVE  FileInv'
BY DEF FileInv, StoredTypes, Lines

Listed == KnownInv /\ FileInv /\ TrustInv

\* go_encrypted learns a key only if it is new.
LEMMA SecuringKeepsList ==
  ASSUME Listed, NEW x \in Correspondents, NEW k \in Keys, GoEncrypted(x, k)
  PROVE  Listed'
<1> DEFINE line == [of |-> x, key |-> k, trusted |-> FALSE]
<1>1. CASE UNCHANGED known /\ UNCHANGED serials /\ NotWritten
  <2>1. UNCHANGED <<known, serials, file, saved, approved, unsure>>
    BY <1>1 DEF NotWritten, GoEncrypted
  <2> QED  BY <2>1, SameFile DEF Listed, KnownInv, KnownTypes, TrustInv
<1>2. CASE /\ \A n \in Fingerprints(x) : known[n].key # k
           /\ serials' = serials + 1 /\ known' = With(known, serials', line)
           /\ Written(known')
  <2>1. /\ serials' \in Nat /\ serials' \notin DOMAIN known
        /\ DOMAIN known' = DOMAIN known \cup {serials'}
        /\ known' = [n \in DOMAIN known' |-> known'[n]]
        /\ known'[serials'] = line
        /\ \A n \in DOMAIN known : known'[n] = known[n]
        /\ DOMAIN known' \subseteq 1 .. serials'
    BY <1>2 DEF With, Listed, KnownInv, KnownTypes
  <2>2. \A n \in DOMAIN known : ~(known[n].of = x /\ known[n].key = k)
    BY <1>2 DEF Fingerprints
  <2>3. line \in Line /\ line.of = x /\ line.key = k /\ ~line.trusted
    BY DEF Line
  <2> HIDE DEF line
  <2>4. KnownTypes'
    BY <2>1, <2>3 DEF KnownTypes, Listed, KnownInv
  <2>5. KnownInv'
    BY <2>1, <2>2, <2>3, <2>4 DEF Listed, KnownInv
  <2>6. FileInv'
    BY <1>2, <2>5, WritingKeepsFile DEF Listed
  <2>7. \A y \in Correspondents, l \in Keys : Trusts(known', y, l) <=> Trusts(known, y, l)
    BY <2>1, <2>3 DEF Trusts
  <2>8. UNCHANGED <<approved, unsure>>
    BY DEF GoEncrypted
  <2> QED  BY <2>5, <2>6, <2>7, <2>8 DEF Listed, TrustInv
<1> QED  BY <1>1, <1>2 DEF GoEncrypted

\* ui_forget_fingerprint: no other fingerprint has the key.
LEMMA ForgettingKeepsList ==
  ASSUME Listed, NEW n, ForgetFingerprint(n)
  PROVE  Listed'
<1>1. n \in DOMAIN known /\ Written(known') /\ UNCHANGED <<serials, unsure>>
  BY DEF ForgetFingerprint
<1>2. CASE UNCHANGED <<known, approved>>
  <2>1. KnownInv' /\ TrustInv'
    BY <1>1, <1>2 DEF Listed, KnownInv, KnownTypes, TrustInv
  <2> QED  BY <1>1, <2>1, WritingKeepsFile DEF Listed
<1>3. CASE /\ known' = Restrict(known, DOMAIN known \ {n})
           /\ approved' = approved \ {<<known[n].of, known[n].key>>}
  <2>1. /\ DOMAIN known' = DOMAIN known \ {n}
        /\ known' = [k \in DOMAIN known' |-> known'[k]]
        /\ \A k \in DOMAIN known' : known'[k] = known[k]
    BY <1>3 DEF Restrict
  <2>2. KnownInv'
    BY <1>1, <2>1 DEF Listed, KnownInv, KnownTypes
  <2>3. FileInv'
    BY <1>1, <2>2, WritingKeepsFile DEF Listed
  <2>4. ASSUME NEW y \in Correspondents, NEW l \in Keys, <<y, l>> \notin unsure'
        PROVE  <<y, l>> \in approved' <=> Trusts(known', y, l)
    <3>1. <<y, l>> \in approved <=> Trusts(known, y, l)
      BY <1>1, <2>4 DEF Listed, TrustInv
    <3>2. CASE y = known[n].of /\ l = known[n].key
      BY <1>1, <1>3, <2>1, <3>2, ZenonT(30) DEF Trusts, Listed, KnownInv
    <3>3. CASE ~(y = known[n].of /\ l = known[n].key)
      <4>1. <<y, l>> \in approved' <=> <<y, l>> \in approved
        BY <1>3, <3>3
      <4>2. Trusts(known', y, l) <=> Trusts(known, y, l)
        BY <1>1, <2>1, <3>3 DEF Trusts
      <4> QED  BY <3>1, <4>1, <4>2
    <3> QED  BY <3>2, <3>3
  <2> QED  BY <2>2, <2>3, <2>4 DEF Listed, TrustInv
<1> QED  BY <1>2, <1>3 DEF ForgetFingerprint

\* authenticatePeer: the answer is about the key that was shown, and reaches the
\* fingerprint that is in use now.
LEMMA AnsweringKeepsList ==
  ASSUME Listed, ContextsInv, DialogInv, NEW approval \in BOOLEAN, CloseDialog(approval)
  PROVE  Listed'
<1> DEFINE c == dialog.on
           x == c[1]
           n == context[c].active
           shown == <<x, dialog.shown>>
           used == IF n = NULL THEN shown ELSE <<x, known[n].key>>
<1>1. /\ c \in AllContexts /\ dialog.shown \in Keys
      /\ dialog.fresh => c \in DOMAIN context
      /\ x \in Correspondents
  <2>1. /\ c \in AllContexts /\ dialog.shown \in Keys
        /\ dialog.fresh => c \in DOMAIN context
    BY DEF CloseDialog, DialogInv, Exists
  <2> QED  BY <2>1, NamedFor
<1>2. /\ UNCHANGED serials
      /\ approved' = IF approval THEN approved \cup {shown} ELSE approved \ {shown}
  BY DEF CloseDialog
<1>3. \A y \in Correspondents, l \in Keys :
        <<y, l>> # shown => (<<y, l>> \in approved' <=> <<y, l>> \in approved)
  BY <1>2
<1> HIDE DEF shown, used
<1>4. CASE UNCHANGED known /\ NotWritten /\ unsure' = unsure \cup {shown}
  <2>1. KnownInv' /\ FileInv'
    BY <1>2, <1>4, SameFile DEF NotWritten, Listed, KnownInv, KnownTypes
  <2> QED  BY <1>3, <1>4, <2>1 DEF Listed, TrustInv, Trusts
<1>5. CASE n = NULL /\ known' = SetTrust(n, approval)
           /\ (Written(known') \/ NotWritten)
           /\ unsure' = unsure \cup {shown, used}
  <2>1. known' = known /\ used = shown
    BY <1>5 DEF SetTrust, used
  <2>2. KnownInv'
    BY <1>2, <2>1 DEF Listed, KnownInv, KnownTypes
  <2>3. FileInv'
    BY <1>5, <2>1, <2>2, SameFile, WritingKeepsFile DEF NotWritten, Listed
  <2> QED  BY <1>3, <1>5, <2>1, <2>2, <2>3 DEF Listed, TrustInv, Trusts
<1>6. CASE /\ n \in DOMAIN known /\ n # NULL /\ c \in DOMAIN context
           /\ known' = SetTrust(n, approval)
           /\ IF WhenChanged(n, approval) THEN Written(known') ELSE NotWritten
           /\ unsure' = IF used = shown THEN unsure \ {shown} ELSE unsure \cup {shown, used}
  <2>1. known[n] \in Line /\ known[n].of = x
    BY <1>6 DEF Listed, KnownInv, KnownTypes, ContextsInv, ActiveIsOwn, Alive, Exists
  <2>2. known' = [known EXCEPT ![n].trusted = approval]
    BY <1>6 DEF SetTrust
  <2> HIDE DEF n, x, c
  <2>3. /\ DOMAIN known' = DOMAIN known
        /\ known' = [k \in DOMAIN known' |-> known'[k]]
        /\ known'[n] \in Line /\ known'[n].trusted = approval
        /\ known'[n].of = x /\ known'[n].key = known[n].key
        /\ \A k \in DOMAIN known : k # n => known'[k] = known[k]
    <3>1. known \in [DOMAIN known -> Line]
      BY DEF Listed, KnownInv, KnownTypes
    <3>2. /\ DOMAIN known' = DOMAIN known
          /\ known' = [k \in DOMAIN known' |-> known'[k]]
          /\ \A k \in DOMAIN known : k # n => known'[k] = known[k]
      BY <2>2, <3>1
    <3>3. known'[n] = [known[n] EXCEPT !.trusted = approval]
      BY <1>6, <2>2, <3>1
    <3>4. /\ known'[n] \in Line /\ known'[n].trusted = approval
          /\ known'[n].of = x /\ known'[n].key = known[n].key
      BY <2>1, <3>3 DEF Line
    <3> QED  BY <3>2, <3>4
  <2>4. KnownInv'
    <3>1. KnownTypes'
      BY <1>2, <2>3 DEF Listed, KnownInv, KnownTypes
    <3>2. \A k \in DOMAIN known : known'[k].of = known[k].of /\ known'[k].key = known[k].key
      BY <2>1, <2>3
    <3> QED  BY <2>3, <3>1, <3>2 DEF Listed, KnownInv
  <2>5. FileInv'
    <3>1. CASE Written(known')
      BY <2>4, <3>1, WritingKeepsFile DEF Listed
    <3>2. CASE ~WhenChanged(n, approval) /\ NotWritten
      <4>1. approval = known[n].trusted
        BY <1>6, <2>1, <3>2 DEF WhenChanged, Line
      <4>2. known'[n] = known[n]
        BY <1>6, <2>1, <2>2, <4>1 DEF Line, Listed, KnownInv, KnownTypes
      <4>3. known' = known
        BY <2>3, <4>2 DEF Listed, KnownInv, KnownTypes
      <4> QED  BY <3>2, <4>3, SameFile DEF NotWritten, Listed
    <3> QED  BY <1>6, <3>1, <3>2
  <2>6. ASSUME NEW y \in Correspondents, NEW l \in Keys, <<y, l>> \notin unsure'
        PROVE  <<y, l>> \in approved' <=> Trusts(known', y, l)
    <3>1. used = <<x, known[n].key>>
      BY <1>6 DEF used
    <3>2. CASE <<y, l>> = shown
      <4>1. used = shown /\ y = x /\ l = known[n].key
        BY <1>6, <2>6, <3>1, <3>2
      <4>2. <<y, l>> \in approved' <=> approval
        BY <1>2, <3>2 DEF shown
      <4>3. Trusts(known', y, l) <=> known'[n].trusted
        BY <1>6, <2>3, <2>4, <4>1 DEF Trusts, KnownInv
      <4> QED  BY <2>3, <4>2, <4>3
    <3>3. CASE <<y, l>> # shown
      <4>1. <<y, l>> \notin unsure /\ <<y, l>> # used
        BY <1>6, <2>6, <3>3
      <4>2. <<y, l>> \in approved <=> Trusts(known, y, l)
        BY <4>1 DEF Listed, TrustInv
      <4>3. Trusts(known', y, l) <=> Trusts(known, y, l)
        BY <2>1, <2>3, <3>1, <4>1 DEF Trusts
      <4> QED  BY <1>3, <3>3, <4>2, <4>3
    <3> QED  BY <3>2, <3>3
  <2> QED  BY <2>4, <2>5, <2>6 DEF Listed, TrustInv
<1>7. 0 \notin DOMAIN known
  BY DEF Listed, KnownInv, KnownTypes
<1> QED  BY <1>1, <1>4, <1>5, <1>6, <1>7 DEF CloseDialog, NULL, shown, used

\* otrl_privkey_read_fingerprints: whose trust the file may have lost or brought back,
\* is unsure.
LEMMA ReadingKeepsList ==
  ASSUME Listed, Restart
  PROVE  Listed'
<1>1. /\ Cardinality(file) \in Nat
      /\ known' \in [serials + 1 .. serials + Cardinality(file) -> file]
      /\ Lines(known') = file
      /\ \A m, n \in DOMAIN known' : known'[m] = known'[n] => m = n
  BY Reading DEF Listed, FileInv, StoredTypes, KnownInv, KnownTypes
<1>2. serials' = serials + Cardinality(file) /\ UNCHANGED <<file, saved, approved>>
  BY DEF Restart
<1>3. KnownTypes'
  BY <1>1, <1>2 DEF KnownTypes, Listed, KnownInv, FileInv, StoredTypes
<1>4. \A n \in DOMAIN known' : known'[n] \in file
  BY <1>1
<1>5. KnownInv'
  BY <1>1, <1>3, <1>4 DEF KnownInv, Listed, FileInv
<1>6. FileInv'
  BY <1>1, <1>2 DEF Listed, FileInv, StoredTypes
<1>7. ASSUME NEW x \in Correspondents, NEW k \in Keys, <<x, k>> \notin unsure'
      PROVE  <<x, k>> \in approved' <=> Trusts(known', x, k)
  <2>1. \A S : Lines(known) = S =>
          (Trusts(known, x, k) <=> \E l \in S : l.of = x /\ l.key = k /\ l.trusted)
    BY DEF Lines, Range, Trusts
  <2>2. Trusts(known', x, k) <=> \E l \in file : l.of = x /\ l.key = k /\ l.trusted
    BY <1>1 DEF Lines, Range, Trusts
  <2>3. CASE saved = "done"
    <3>1. unsure' = unsure /\ file = Lines(known)
      BY <2>3 DEF Restart, Listed, FileInv
    <3> QED  BY <1>2, <1>7, <2>1, <2>2, <3>1 DEF Listed, TrustInv
  <2>4. CASE saved = "unopened"
    BY <1>7, <2>4 DEF Restart
  <2>5. CASE saved = "cut"
    <3>1. unsure' = unsure \cup approved /\ file \subseteq Lines(known)
      BY <2>5 DEF Restart, Listed, FileInv
    <3>2. <<x, k>> \notin unsure /\ <<x, k>> \notin approved
      BY <1>7, <3>1
    <3>3. ~Trusts(known, x, k)
      BY <3>2 DEF Listed, TrustInv
    <3> QED  BY <1>2, <2>1, <2>2, <3>1, <3>2, <3>3
  <2> QED  BY <2>3, <2>4, <2>5 DEF Listed, FileInv
<1> QED  BY <1>5, <1>6, <1>7 DEF Listed, TrustInv

\* No other step has to do with the list.
LEMMA OtherStepsKeepList ==
  ASSUME Listed, UNCHANGED <<unchangedKeys>>
  PROVE  Listed'
BY SameFile DEF unchangedKeys, Listed, KnownInv, KnownTypes, TrustInv

LEMMA ListStep ==
  ASSUME Listed, ContextsInv, DialogInv, [NextAll]_allVars
  PROVE  Listed'
<1>1. ASSUME NEW x \in Correspondents, StepOf(x)
      PROVE  Listed'
  <2>1. ASSUME NEW k \in Keys, GoEncrypted(x, k)
        PROVE  Listed'
    BY <2>1, SecuringKeepsList
  <2>2. ASSUME NEW c \in ContextsOf(x), CloseContext(c)
        PROVE  UNCHANGED <<unchangedKeys>>
    BY <2>2 DEF CloseContext, End
  <2>3. CASE SendCommit(x) \/ ReceiveCommit(x) \/ ReceiveKey(x) \/ Age(x)
    BY <2>3, OtherStepsKeepList DEF SendCommit, ReceiveCommit, ReceiveKey, Age
  <2>4. CASE \E c \in ContextsOf(x) : OpenDialog(c)
    BY <2>4, OtherStepsKeepList DEF OpenDialog
  <2> QED  BY <1>1, <2>1, <2>2, <2>3, <2>4, OtherStepsKeepList DEF StepOf
<1>2. ASSUME NEW n \in DOMAIN known, ForgetFingerprint(n)
      PROVE  Listed'
  BY <1>2, ForgettingKeepsList
<1>3. ASSUME NEW approval \in BOOLEAN, CloseDialog(approval)
      PROVE  Listed'
  BY <1>3, AnsweringKeepsList
<1>4. CASE CancelDialog \/ Poll
  BY <1>4, OtherStepsKeepList DEF CancelDialog, Poll
<1>5. ASSUME NEW x \in Correspondents,
             NeedKey(x) \/ \E c \in ContextsOf(x) : Populate(c)
      PROVE  Listed'
  BY <1>5, OtherStepsKeepList DEF NeedKey, Populate
<1>6. CASE RestartAll
  BY <1>6, ReadingKeepsList DEF RestartAll
<1>7. CASE UNCHANGED allVars
  BY <1>7, OtherStepsKeepList DEF allVars, vars, unchangedKeys
<1> QED  BY <1>1, <1>2, <1>3, <1>4, <1>5, <1>6, <1>7 DEF NextAll, UserStep

-----------------------------------------------------------------------------
(* The dialog and the timer.                                               *)

\* Contexts only go when they are forgotten, and with them what they wait for.
LEMMA ContextsRemain ==
  ASSUME ContextsInv, CommitInv, NEW x \in Correspondents, StepOf(x)
  PROVE  /\ DOMAIN context \subseteq DOMAIN context'
         /\ \A c \in DOMAIN context' :
              \/ Exists(c) \/ c \in Masters
              \/ c = Instance(x) /\ Populated(Master(x))
<1> DEFINE Remain == /\ DOMAIN context \subseteq DOMAIN context'
                     /\ \A c \in DOMAIN context' :
                          \/ Exists(c) \/ c \in Masters
                          \/ c = Instance(x) /\ Populated(Master(x))
<1>1. ASSUME NEW c \in ContextsOf(x), c \in Masters \/ x \notin Old,
             DOMAIN context' = DOMAIN Added(c),
             c \in Masters \/ Populated(Master(x))
      PROVE  Remain
  <2>1. DOMAIN context' = DOMAIN context \cup {Master(x), c}
    BY <1>1, AddedFacts
  <2>2. c = Instance(x) \/ c \in Masters
    BY Named DEF ContextsOf
  <2> QED  BY <1>1, <2>1, <2>2, Named DEF Exists
<1>2. ASSUME NEW k \in Keys, Speaks(x), GoEncrypted(x, k)
      PROVE  Remain
  <2>1. DOMAIN context' = DOMAIN Added(Home(x))
    <3>1. ASSUME NEW v, Contexts([Added(Home(x)) EXCEPT ![Home(x)] = v])
          PROVE  DOMAIN context' = DOMAIN Added(Home(x))
      BY <3>1 DEF Contexts
    <3> QED  BY <1>2, <3>1 DEF GoEncrypted
  <2> QED  BY <1>1, <1>2, <2>1, Named DEF Speaks
<1>3. CASE SendCommit(x)
  BY <1>1, <1>3, Named DEF SendCommit, Contexts
<1>4. CASE ReceiveCommit(x) /\ Populated(Master(x))
  BY <1>1, <1>4, Named DEF ReceiveCommit, Contexts
<1>5. CASE ReceiveKey(x)
  <2>1. x \notin Old /\ Populated(Master(x))
    BY <1>5 DEF ReceiveKey, CommitInv
  <2>2. DOMAIN context' = DOMAIN Added(Instance(x))
    BY <1>5 DEF ReceiveKey, Contexts
  <2> QED  BY <1>1, <2>1, <2>2, Named
<1>6. CASE DOMAIN context' = DOMAIN context
  BY <1>6 DEF Exists
<1>7. CASE Age(x) \/ \E c \in ContextsOf(x) : CloseContext(c) \/ OpenDialog(c)
  BY <1>6, <1>7 DEF Age, CloseContext, End, Forced, OpenDialog, unchangedContexts
<1> QED  BY <1>2, <1>3, <1>4, <1>5, <1>7 DEF StepOf

LEMMA DialogStep ==
  ASSUME DialogInv, ContextsInv, CommitInv, KnownTypes, [NextAll]_allVars
  PROVE  DialogInv'
<1>1. CASE dialog' = dialog /\ DOMAIN context \subseteq DOMAIN context'
  BY <1>1 DEF DialogInv, Exists
<1>2. CASE dialog' = Closed
  BY <1>2 DEF DialogInv
<1>3. ASSUME NEW x \in Correspondents, StepOf(x)
      PROVE  DialogInv'
  <2>1. ASSUME NEW c \in ContextsOf(x), OpenDialog(c)
        PROVE  DialogInv'
    <3>1. /\ c \in AllContexts /\ c \in DOMAIN context' /\ context' = context
          /\ context[c].active \in DOMAIN known
          /\ dialog' = [on |-> c, shown |-> known[context[c].active].key, fresh |-> TRUE]
      BY <2>1, Named DEF OpenDialog, Alive, Exists, unchangedContexts
    <3>2. known[context[c].active].key \in Keys
      BY <3>1 DEF KnownTypes, Line
    <3> QED  BY <3>1, <3>2 DEF DialogInv, Exists
  <2>2. ASSUME NEW c \in ContextsOf(x), CloseContext(c)
        PROVE  dialog' = dialog
    BY <2>2 DEF CloseContext, End
  <2>3. ASSUME NEW k \in Keys, GoEncrypted(x, k)
        PROVE  dialog' = dialog
    BY <2>3 DEF GoEncrypted
  <2>4. CASE SendCommit(x) \/ ReceiveCommit(x) \/ ReceiveKey(x) \/ Age(x)
    BY <1>1, <1>3, <2>4, ContextsRemain DEF SendCommit, ReceiveCommit, ReceiveKey, Age
  <2> QED  BY <1>1, <1>3, <2>1, <2>2, <2>3, <2>4, ContextsRemain DEF StepOf
<1>4. ASSUME NEW n \in DOMAIN known, ForgetFingerprint(n)
      PROVE  DialogInv'
  <2> DEFINE x == known[n].of
  <2>1. CASE context' = context /\ dialog' = dialog
    BY <1>1, <2>1
  <2>2. CASE /\ context' = Restrict(context, DOMAIN context \ ContextsOf(x))
             /\ dialog' = IF dialog.on \in ContextsOf(x)
                          THEN [dialog EXCEPT !.fresh = FALSE] ELSE dialog
    <3>1. DOMAIN context' = DOMAIN context \ ContextsOf(x)
      BY <2>2 DEF Restrict
    <3>2. CASE dialog = Closed
      BY <2>2, <3>2 DEF DialogInv, Closed
    <3>3. CASE dialog # Closed /\ dialog.on \notin ContextsOf(x)
      BY <2>2, <3>1, <3>3 DEF DialogInv, Exists
    <3>4. CASE dialog # Closed /\ dialog.on \in ContextsOf(x)
      BY <2>2, <3>4 DEF DialogInv
    <3> QED  BY <3>2, <3>3, <3>4
  <2> QED  BY <1>4, <2>1, <2>2 DEF ForgetFingerprint, Contexts, unchangedContexts
<1>5. CASE (\E approval \in BOOLEAN : CloseDialog(approval)) \/ CancelDialog \/ RestartAll
  BY <1>2, <1>5 DEF CloseDialog, CancelDialog, RestartAll, Restart
<1>6. CASE Poll \/ UNCHANGED allVars \/ \E x \in Correspondents : NeedKey(x)
  BY <1>1, <1>6 DEF Poll, NeedKey, unchangedContexts, allVars, vars
<1>7. ASSUME NEW x \in Correspondents, NEW c \in ContextsOf(x), Populate(c)
      PROVE  DialogInv'
  <2>1. (c \in Masters \/ x \notin Old) /\ context' = Added(c) /\ dialog' = dialog
    BY <1>7, Named DEF Populate, Contexts, ContextsInv, Places, Exists
  <2>2. DOMAIN context \subseteq DOMAIN context'
    BY <2>1, AddedFacts
  <2> QED  BY <1>1, <2>1, <2>2
<1> QED  BY <1>3, <1>4, <1>5, <1>6, <1>7 DEF NextAll, UserStep

LEMMA TimerStep ==
  ASSUME TimerInv, [NextAll]_allVars
  PROVE  TimerInv'
<1>1. CASE UNCHANGED unchangedTimer
  BY <1>1 DEF unchangedTimer, TimerInv
<1>2. ASSUME NEW x \in Correspondents, StepOf(x)
      PROVE  TimerInv'
  <2>1. CASE SendCommit(x)
    BY <2>1 DEF SendCommit, TimerInv
  <2>2. CASE Age(x)
    BY <2>2 DEF Age, TimerInv
  <2>3. ASSUME NEW c \in ContextsOf(x), CloseContext(c)
        PROVE  TimerInv'
    <3>1. /\ waiting' = waiting \/ waiting' = [waiting EXCEPT ![c[1]] = "no"]
          /\ UNCHANGED <<timer_running, otrl_timer_set>>
      BY <2>3, Zenon DEF CloseContext, End, Forced
    <3> QED  BY <3>1 DEF TimerInv
  <2>4. ASSUME NEW k \in Keys, GoEncrypted(x, k)
        PROVE  TimerInv'
    BY <1>1, <2>4 DEF GoEncrypted
  <2>5. CASE \/ ReceiveCommit(x) \/ ReceiveKey(x)
             \/ \E c \in ContextsOf(x) : OpenDialog(c)
    BY <1>1, <2>5 DEF ReceiveCommit, ReceiveKey, OpenDialog
  <2> QED  BY <1>2, <2>1, <2>2, <2>3, <2>4, <2>5 DEF StepOf
<1>3. ASSUME NEW n \in DOMAIN known, ForgetFingerprint(n)
      PROVE  TimerInv'
  BY <1>3 DEF ForgetFingerprint, TimerInv
<1>4. CASE Poll
  BY <1>4 DEF Poll, TimerInv
<1>5. CASE RestartAll
  BY <1>5 DEF RestartAll, Restart, TimerInv
<1>6. CASE \/ \E approval \in BOOLEAN : CloseDialog(approval)
           \/ CancelDialog
           \/ \E x \in Correspondents : NeedKey(x) \/ \E c \in ContextsOf(x) : Populate(c)
           \/ UNCHANGED allVars
  BY <1>1, <1>6 DEF CloseDialog, CancelDialog, NeedKey, Populate, allVars, vars,
                    unchangedTimer
<1> QED  BY <1>2, <1>3, <1>4, <1>5, <1>6 DEF NextAll, UserStep

-----------------------------------------------------------------------------
(* The tags of the contexts.                                               *)

\* A context that stays keeps its tag, and a new one gets the account's.
LEMMA Tagging ==
  ASSUME TagInv, Tagged
  PROVE  /\ our_instance' \in [DOMAIN context' -> {"none", "tag", "stray"}]
         /\ \A c \in DOMAIN context' :
              our_instance'[c] = IF Exists(c) THEN our_instance[c] ELSE Given(c[1], instags)
BY DEF TagInv, Tagged, Given, Exists

LEMMA UserStepKeepsTags ==
  ASSUME TagInv, OneTag, ContextsInv, CommitInv, KnownTypes, running,
         UserStep, Tagged, UNCHANGED accounts
  PROVE  TagInv' /\ OneTag'
<1>1. /\ our_instance' \in [DOMAIN context' -> {"none", "tag", "stray"}]
      /\ \A c \in DOMAIN context' :
           our_instance'[c] = IF Exists(c) THEN our_instance[c] ELSE Given(c[1], instags)
  BY Tagging
<1>2. instags' = instags /\ refused' = refused
  BY DEF accounts
<1>3. \A c \in DOMAIN context : our_instance[c] = "tag" => AccountOf[c[1]] \in instags
  BY DEF TagInv
<1>4. TagInv'
  BY <1>1, <1>2, <1>3 DEF TagInv, Given, Exists
<1>5. ASSUME NEW c \in DOMAIN context', ~Exists(c), c \notin Masters
      PROVE  Populated(Master(c[1]))
  <2>1. ASSUME NEW x \in Correspondents, StepOf(x)
        PROVE  Populated(Master(c[1]))
    BY <1>5, <2>1, ContextsRemain, Named, SMTT(20)
  <2>2. DOMAIN context' \subseteq DOMAIN context \/ \E x \in Correspondents : StepOf(x)
    BY DEF UserStep, ForgetFingerprint, Contexts, Restrict, CloseDialog, CancelDialog,
           Poll, unchangedContexts
  <2> QED  BY <1>5, <2>1, <2>2 DEF Exists
<1>6. ASSUME NEW c \in DOMAIN context', AccountOf[c[1]] \notin refused
      PROVE  our_instance'[c] # "stray" /\ (c \notin Masters => our_instance'[c] = "tag")
  <2>1. CASE Exists(c)
    BY <1>1, <1>6, <2>1 DEF OneTag, TagInv, Exists
  <2>2. CASE ~Exists(c) /\ c \in Masters
    BY <1>1, <2>2 DEF Given
  <2>3. CASE ~Exists(c) /\ c \notin Masters
    <3> DEFINE m == Master(c[1])
    <3>1. m \in DOMAIN context /\ our_instance[m] # "none"
      BY <1>5, <2>3 DEF Populated, Exists
    <3>2. m[1] = c[1]
      BY DEF Master
    <3>3. our_instance[m] = "tag"
      BY <1>6, <3>1, <3>2 DEF OneTag, TagInv
    <3>4. AccountOf[c[1]] \in instags
      BY <1>3, <3>1, <3>2, <3>3
    <3> QED  BY <1>1, <2>3, <3>4 DEF Given
  <2> QED  BY <2>1, <2>2, <2>3
<1>7. OneTag'
  BY <1>1, <1>2, <1>6 DEF OneTag
<1> QED  BY <1>4, <1>7

LEMMA PopulatingKeepsTags ==
  ASSUME TagInv, OneTag, ContextsInv, NEW x \in Correspondents,
         NEW c \in ContextsOf(x), Populate(c)
  PROVE  /\ TagInv' /\ OneTag'
         /\ \A y \in Correspondents : Populated(Master(y)) => Populated(Master(y))'
<1> DEFINE a == AccountOf[x]
<1>1. c[1] = x /\ running /\ ~Populated(c) /\ (c \in Masters \/ Exists(c))
  BY Named DEF Populate
<1>2. c \in Masters \/ x \notin Old
  BY <1>1 DEF ContextsInv, Places, Exists
<1>3. DOMAIN context' = DOMAIN context \cup {Master(x), c} /\ context' = Added(c)
  BY <1>2, AddedFacts DEF Populate, Contexts
<1>4. DOMAIN context' = DOMAIN context \cup {c}
  BY <1>1, <1>3, Named DEF ContextsInv, Places, Exists, ContextsOf
<1> DEFINE Gives(tag) ==
        /\ our_instance' = [d \in DOMAIN context' |-> IF d = c THEN tag ELSE our_instance[d]]
        /\ tag = "stray" => a \in refused'
        /\ running' /\ tag = "tag" => a \in instags'
        /\ instags \subseteq instags' /\ refused \subseteq refused'
<1>5. PICK tag \in {"tag", "stray"} : Gives(tag)
  <2>1. CASE a \in instags /\ UNCHANGED <<accounts, running>>
             /\ our_instance' = [d \in DOMAIN context' |->
                                   IF d = c THEN "tag" ELSE our_instance[d]]
    BY <2>1 DEF accounts
  <2>2. ASSUME NEW outcome \in Outcomes, Own!MakeTag(a, outcome), Survives(outcome),
               our_instance' = [d \in DOMAIN context' |->
                 IF d = c THEN (IF outcome = "unopened" THEN "stray" ELSE "tag")
                 ELSE our_instance[d]]
        PROVE  Gives("tag") \/ Gives("stray")
    <3>1. CASE outcome = "done"
      <4>1. Gives("tag")
        BY <2>2, <3>1 DEF Own!MakeTag
      <4> QED  BY <4>1
    <3>2. CASE outcome = "unopened"
      <4>1. Gives("stray")
        BY <2>2, <3>2 DEF Own!MakeTag
      <4> QED  BY <4>1
    <3>3. CASE outcome = "cut"
      <4>1. Gives("tag")
        BY <2>2, <3>3 DEF Own!MakeTag, Survives
      <4> QED  BY <4>1
    <3> QED  BY <3>1, <3>2, <3>3, OutcomesAreKnown
  <2> QED  BY <1>1, <2>1, <2>2 DEF Populate
<1>6. our_instance' \in [DOMAIN context' -> {"none", "tag", "stray"}]
  BY <1>4, <1>5 DEF TagInv
<1>7. TagInv'
  BY <1>1, <1>4, <1>5, <1>6 DEF TagInv
<1>8. c \notin Masters => a \in refused
  BY <1>1 DEF Populated, Exists, OneTag, TagInv
<1>9. OneTag'
  BY <1>1, <1>4, <1>5, <1>6, <1>8 DEF OneTag, TagInv
<1>10. ASSUME NEW y \in Correspondents, Populated(Master(y))
       PROVE  Master(y) \in DOMAIN context' /\ our_instance'[Master(y)] # "none"
  BY <1>1, <1>4, <1>5, <1>10 DEF Populated, Exists
<1> QED  BY <1>7, <1>9, <1>10 DEF Populated, Exists

LEMMA TagsStep ==
  ASSUME TagInv, OneTag, ContextsInv, CommitInv, KnownTypes, StoredTypes,
         Own!TypeOK, AccountsInv, [NextAll]_allVars
  PROVE  TagInv' /\ OneTag'
<1>1. CASE UserStep /\ Tagged /\ UNCHANGED accounts
  <2>1. UserStep => running
    BY Zenon DEF UserStep, StepOf, GoEncrypted, SendCommit, ReceiveCommit, ReceiveKey, Age,
           CloseContext, End, OpenDialog, ForgetFingerprint, CloseDialog,
           CancelDialog, Poll, Happens
  <2> QED  BY <1>1, <2>1, UserStepKeepsTags, SMTT(30)
<1>2. ASSUME NEW x \in Correspondents, NeedKey(x)
      PROVE  TagInv' /\ OneTag'
  <2>1. /\ UNCHANGED <<context, our_instance>> /\ running
        /\ instags \subseteq instags' /\ refused \subseteq refused'
    BY <1>2, MakingKeepsAccounts, EveryContextHasAccount DEF NeedKey, unchangedContexts
  <2> QED  BY <2>1 DEF TagInv, OneTag
<1>3. ASSUME NEW x \in Correspondents, NEW c \in ContextsOf(x), Populate(c)
      PROVE  TagInv' /\ OneTag'
  BY <1>3, PopulatingKeepsTags
<1>4. CASE RestartAll
  <2>1. /\ our_instance' = [c \in DOMAIN context' |-> Given(c[1], instags')]
        /\ \A c \in DOMAIN context' : c \in Masters
    BY <1>4 DEF RestartAll, Restart, StoredTypes, Line, Masters
  <2> QED  BY <2>1 DEF TagInv, OneTag, Given
<1>5. CASE UNCHANGED allVars
  BY <1>5 DEF allVars, vars, accounts, TagInv, OneTag
<1> QED  BY <1>1, <1>2, <1>3, <1>4, <1>5 DEF NextAll

LEMMA CommitStep ==
  ASSUME CommitInv, TagInv, OneTag, TimerInv, ContextsInv, KnownTypes, [NextAll]_allVars
  PROVE  CommitInv'
<1> DEFINE Waits(x) == x \notin Old /\ Master(x) \in DOMAIN context'
                       /\ our_instance'[Master(x)] # "none"
<1>1. ASSUME NEW x \in Correspondents, waiting[x] # "no" \/ (x \notin Old /\ Populated(Master(x))),
             Master(x) \in DOMAIN context', Tagged
      PROVE  Waits(x)
  BY <1>1, Tagging DEF CommitInv, Populated, Exists
<1>2. ASSUME NEW x \in Correspondents, StepOf(x), Tagged,
             NEW y \in Correspondents, waiting'[y] # "no"
      PROVE  Waits(y)
  <2>1. waiting[y] # "no" \/ (y \notin Old /\ Populated(Master(y)))
    <3>1. CASE SendCommit(x) /\ Populated(Master(x))
      BY <1>2, <3>1 DEF SendCommit, TimerInv
    <3>2. CASE Age(x)
      BY <1>2, <3>2 DEF Age, TimerInv
    <3>3. ASSUME NEW c \in ContextsOf(x), CloseContext(c)
          PROVE  waiting[y] # "no"
      <4>1. waiting' = waiting \/ waiting' = [waiting EXCEPT ![c[1]] = "no"]
        BY <3>3, Zenon DEF CloseContext, End, Forced
      <4> QED  BY <1>2, <4>1 DEF TimerInv
    <3>4. ASSUME NEW k \in Keys, GoEncrypted(x, k)
          PROVE  waiting' = waiting
      BY <3>4 DEF GoEncrypted, unchangedTimer
    <3>5. CASE ReceiveCommit(x) \/ ReceiveKey(x) \/ \E c \in ContextsOf(x) : OpenDialog(c)
      BY <1>2, <3>5 DEF ReceiveCommit, ReceiveKey, OpenDialog, unchangedTimer
    <3> QED  BY <1>2, <3>1, <3>2, <3>3, <3>4, <3>5 DEF StepOf
  <2>2. Master(y) \in DOMAIN context'
    BY <1>2, <2>1, ContextsRemain DEF CommitInv, Populated, Exists
  <2> QED  BY <1>1, <1>2, <2>1, <2>2
<1>3. ASSUME NEW n \in DOMAIN known, ForgetFingerprint(n), Tagged,
             NEW y \in Correspondents, waiting'[y] # "no"
      PROVE  Waits(y)
  <2> DEFINE x == known[n].of
  <2>1. CASE UNCHANGED <<context, waiting>>
    BY <1>1, <1>3, <2>1 DEF CommitInv, Populated, Exists
  <2>2. CASE /\ context' = Restrict(context, DOMAIN context \ ContextsOf(x))
             /\ waiting' = [waiting EXCEPT ![x] = "no"]
    <3>1. y # x /\ waiting[y] # "no"
      BY <1>3, <2>2 DEF TimerInv
    <3>2. Master(y) \in DOMAIN context /\ Master(y) \notin ContextsOf(x)
      BY <3>1, Named DEF CommitInv, Populated, Exists, KnownTypes, Line
    <3>3. Master(y) \in DOMAIN context'
      BY <2>2, <3>2 DEF Restrict
    <3> QED  BY <1>1, <1>3, <3>1, <3>3
  <2> QED  BY <1>3, <2>1, <2>2 DEF ForgetFingerprint, Contexts, unchangedContexts
<1>4. ASSUME (\E approval \in BOOLEAN : CloseDialog(approval)) \/ CancelDialog \/ Poll,
             Tagged, NEW y \in Correspondents, waiting'[y] # "no"
      PROVE  Waits(y)
  <2>1. context' = context /\ waiting[y] # "no"
    BY <1>4 DEF CloseDialog, CancelDialog, Poll, unchangedContexts, unchangedTimer, TimerInv
  <2> QED  BY <1>1, <1>4, <2>1, SMTT(20) DEF CommitInv, Populated, Exists
<1>5. ASSUME NEW x \in Correspondents, NeedKey(x)
      PROVE  CommitInv'
  BY <1>5 DEF NeedKey, unchangedContexts, unchangedTimer, CommitInv, Populated, Exists
<1>6. ASSUME NEW x \in Correspondents, NEW c \in ContextsOf(x), Populate(c)
      PROVE  CommitInv'
  <2>1. waiting' = waiting
    BY <1>6 DEF Populate, unchangedTimer
  <2> QED  BY <1>6, <2>1, PopulatingKeepsTags DEF CommitInv
<1>7. CASE RestartAll
  BY <1>7 DEF RestartAll, Restart, CommitInv
<1>8. CASE UNCHANGED allVars
  BY <1>8 DEF allVars, vars, CommitInv, Populated, Exists
<1>9. ASSUME \A y \in Correspondents : waiting'[y] # "no" => Waits(y)
      PROVE  CommitInv'
  BY <1>9 DEF CommitInv, Populated, Exists
<1> QED  BY <1>2, <1>3, <1>4, <1>5, <1>6, <1>7, <1>8, <1>9 DEF NextAll, UserStep

-----------------------------------------------------------------------------
(* The theorems.                                                           *)

LEMMA Initially == InitAll => IInv
<1> SUFFICES ASSUME InitAll
             PROVE  IInv
  OBVIOUS
<1> USE DEF InitAll, Init
<1>1. DOMAIN context = {} /\ DOMAIN known = {} /\ DOMAIN our_instance = {}
  OBVIOUS
<1>2. ContextsInv
  BY <1>1, FS_EmptySet DEF ContextsInv, Places, HomesOnly, ActiveIsKnown, ActiveIsOwn
<1>3. SlotsInv
  <2>1. owned = {} /\ Cardinality({}) = 0 /\ PoolSize \in Nat
    BY FS_EmptySet, BoundsAreNat
  <2>2. Cardinality(owned) <= PoolSize
    BY <2>1
  <2>3. exhausted \in BOOLEAN
    OBVIOUS
  <2> QED  BY <1>1, <2>1, <2>2, <2>3 DEF SlotsInv, SlotsOK
<1>4. KnownInv /\ FileInv /\ TrustInv
  <2>1. Lines(known) = {}
    BY <1>1 DEF Lines, Range
  <2>2. KnownInv
    BY <1>1 DEF KnownInv, KnownTypes
  <2>3. FileInv
    BY <2>1, FS_EmptySet DEF FileInv, StoredTypes
  <2>4. TrustInv
    BY <1>1 DEF TrustInv, Trusts
  <2> QED  BY <2>2, <2>3, <2>4
<1>5. DialogInv /\ CommitInv /\ TimerInv
  BY DEF DialogInv, CommitInv, TimerInv
<1>6. Own!TypeOK /\ AccountsInv
  BY DEF Own!Init, Own!TypeOK, AccountsInv
<1>7. TagInv /\ OneTag
  BY <1>1 DEF TagInv, OneTag
<1> QED  BY <1>2, <1>3, <1>4, <1>5, <1>6, <1>7 DEF IInv

\* Each part of the invariant is kept by every step.
LEMMA Inductive == IInv /\ [NextAll]_allVars => IInv'
<1> SUFFICES ASSUME IInv, [NextAll]_allVars
             PROVE  IInv'
  OBVIOUS
<1>1. KnownTypes /\ StoredTypes /\ Listed
  BY DEF IInv, KnownInv, FileInv, Listed
<1>2. ContextsInv' /\ SlotsInv'
  BY <1>1, ContextsStep, SlotsStay DEF IInv
<1>3. KnownInv' /\ FileInv' /\ TrustInv'
  BY <1>1, ListStep DEF IInv, Listed
<1>4. DialogInv' /\ CommitInv' /\ TimerInv'
  BY <1>1, DialogStep, CommitStep, TimerStep DEF IInv
<1>5. Own!TypeOK' /\ AccountsInv'
  BY AccountsStep DEF IInv
<1>6. TagInv' /\ OneTag'
  BY <1>1, TagsStep DEF IInv
<1> QED  BY <1>2, <1>3, <1>4, <1>5, <1>6 DEF IInv

\* The invariant that all the others follow from.
THEOREM Invariance == SpecAll => []IInv
BY Initially, Inductive, PTL DEF SpecAll

\* Types; no slot is lost, no fingerprint is without its correspondent.
THEOREM StateIsOK == SpecAll => []StateOK
<1>1. IInv => StateOK
  <2> SUFFICES ASSUME IInv
               PROVE  StateOK
    OBVIOUS
  <2>1. /\ DOMAIN context \subseteq UNION {ContextsOf(x) : x \in Correspondents}
        /\ \A c \in DOMAIN context :
             /\ context[c].msgstate \in {"PLAINTEXT", "ENCRYPTED", "FINISHED"}
             /\ context[c].active \in 0 .. serials
             /\ Exists(Master(c[1]))
        /\ \A n \in DOMAIN known : Exists(Master(known[n].of))
    BY DEF IInv, ContextsInv, Places, AllContexts, ContextType, Exists
  <2>2. \A x \in Correspondents : waiting[x] # "no" => Exists(Master(x))
    BY DEF IInv, CommitInv, Populated
  <2> QED  BY <2>1, <2>2 DEF IInv, SlotsInv, SlotsOK, TimerInv, TagInv, StateOK, TypeOK
<1> QED  BY <1>1, Invariance, PTL

\* A private conversation has its fingerprint, whatever the user forgets.
THEOREM ActiveStaysKnown == SpecAll => []ActiveIsKnown
<1>1. IInv => ActiveIsKnown
  BY DEF IInv, ContextsInv
<1> QED  BY <1>1, Invariance, PTL

\* write_fingerprints is called wherever the list or a trust has changed.
THEOREM FileHoldsMemory == SpecAll => []FileIsMemory
<1>1. IInv => FileIsMemory
  BY DEF IInv, FileInv, FileIsMemory
<1> QED  BY <1>1, Invariance, PTL

\* The trust in a key is the user's latest word on it, over any restart.
THEOREM TrustFollowsTheUser == SpecAll => []TrustIsTheUsers
<1>1. IInv => TrustIsTheUsers
  BY DEF IInv, TrustInv, Trusts, Fingerprints, TrustIsTheUsers
<1> QED  BY <1>1, Invariance, PTL

\* The contexts of a correspondent have the tag of the account.
THEOREM ContextsHaveOneTag == SpecAll => []OneTag
<1>1. IInv => OneTag
  BY DEF IInv
<1> QED  BY <1>1, Invariance, PTL

\* A key goes only with all keys, and a tag only as the program ended.
THEOREM IdentitiesLast == SpecAll => IdentityLasts
<1> DEFINE Stays == /\ privkeys \subseteq privkeys' \/ keyfile = {}
                    /\ instags \subseteq instags' \/ ~running
<1>1. IInv /\ [NextAll]_allVars => [Stays]_allVars
  <2> SUFFICES ASSUME IInv, NextAll
               PROVE  Stays
    OBVIOUS
  <2>1. CASE UNCHANGED accounts
    BY <2>1 DEF accounts
  <2>2. ASSUME NEW a \in Accounts, NEW outcome, running, Survives(outcome),
               Own!MakeKey(a, outcome) \/ Own!MakeTag(a, outcome)
        PROVE  Stays
    BY <2>2, MakingKeepsAccounts DEF IInv
  <2>3. ASSUME NEW x \in Correspondents, NeedKey(x)
        PROVE  Stays
    BY <2>2, <2>3, EveryContextHasAccount DEF NeedKey
  <2>4. ASSUME NEW x \in Correspondents, NEW c \in ContextsOf(x), Populate(c)
        PROVE  Stays
    <3>1. AccountOf[c[1]] \in Accounts /\ running
      BY <2>4, Named, EveryContextHasAccount DEF Populate
    <3> QED  BY <2>1, <2>2, <2>4, <3>1 DEF Populate
  <2>5. CASE RestartAll
    BY <2>5 DEF RestartAll, Own!Read, IInv, AccountsInv
  <2> QED  BY <2>1, <2>3, <2>4, <2>5 DEF NextAll
<1> QED  BY <1>1, Invariance, PTL DEF SpecAll, IdentityLasts
=============================================================================
