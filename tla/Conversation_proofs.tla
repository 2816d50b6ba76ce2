------------------------- MODULE Conversation_proofs -------------------------
(***************************************************************************)
(* Proofs about Conversation, for any number of clients, any policies and  *)
(* any bounds.                                                             *)
(*                                                                         *)
(* What a call may do to a list of contexts is judged by three predicates  *)
(* on the list: its types, who may be private, and what its marks to       *)
(* retransmit may still send.  Every operator of Conversation that makes a *)
(* list preserves them (one lemma each), hence every action does.          *)
(*                                                                         *)
(* The BEST instance is a walk over the list, defined by recursion.  What  *)
(* it finds is proved by the least client for which it would be wrong.     *)
(***************************************************************************)
EXTENDS Conversation, Integers, FiniteSetTheorems, SequenceTheorems, TLAPS

-----------------------------------------------------------------------------
(* The inductive invariant.                                                *)

\* The contexts when n texts have been typed.
ContextType(n) ==
  [exists : BOOLEAN, msgstate : {"PLAINTEXT", "ENCRYPTED", "FINISHED"},
   authstate : {"NONE", "AWAITING_DHKEY", "AWAITING_REVEALSIG", "AWAITING_SIG"},
   active : BOOLEAN, lastmessage : 0 .. n, may_retransmit : 0 .. 2,
   lastrecv : 0 .. N + 1]
Lists(n) == [Contexts -> ContextType(n)]

Text == [required : BOOLEAN, went : {"clear", "held", "sent", "dropped", "lost"},
         copies : Nat]

\* Only what exists is private, and the master, which inherits from nobody, only
\* with keys.
Private(f) ==
  /\ f[Master].exists
  /\ f[Master].msgstate = "ENCRYPTED" => f[Master].active
  /\ \A c \in Contexts : f[c].msgstate = "ENCRYPTED" => f[c].exists

\* No text is kept by two contexts, and one that is marked may be sent once more
\* than it has been.
Marks(f, t, e) ==
  /\ \A c \in Contexts :
       /\ f[c].may_retransmit = 2 => f[c].lastmessage # NULL
       /\ f[c].may_retransmit # 0 /\ f[c].lastmessage # NULL
            => t[f[c].lastmessage].copies <= e
  /\ \A c, d \in Contexts :
       f[c].lastmessage = f[d].lastmessage /\ f[c].lastmessage # NULL => c = d

Sent(t, e) ==
  /\ t \in Seq(Text)
  /\ \A k \in DOMAIN t :
       /\ t[k].copies <= 1 + e
       /\ owned /\ t[k].required => t[k].went # "clear"

Flags ==
  /\ clients \in ClientSets
  /\ otr_offer \in {"NOT", "SENT", "ACCEPTED", "REJECTED"}
  /\ trusted \subseteq Contexts
  /\ owned \in BOOLEAN /\ privateConverstationEnded \in BOOLEAN

IInv ==
  /\ Flags /\ errors \in Nat
  /\ context \in Lists(Len(texts))
  /\ Private(context) /\ Marks(context, texts, errors) /\ Sent(texts, errors)
-----------------------------------------------------------------------------
(* The contexts are numbers, and there are finitely many.                  *)

LEMMA Numbers ==
  /\ N \in Nat /\ Contexts = 0 .. N /\ Master \in Contexts
  /\ IsFiniteSet(Contexts) /\ Cardinality(Contexts) = N + 1
<1>1. N \in Nat /\ Contexts = 0 .. N
  BY BoundsAreNat DEF Contexts, Master, Instances
<1>2. IsFiniteSet(0 .. N) /\ Cardinality(0 .. N) = N + 1
  BY <1>1, FS_Interval
<1> QED  BY <1>1, <1>2 DEF Master

LEMMA LeastNumber ==
  ASSUME NEW T \in SUBSET Nat, T # {}
  PROVE  \E n \in T : \A m \in T : n <= m
<1> DEFINE U == {0 .. n : n \in T}
<1>1. U \subseteq FiniteSubsetsOf(Nat)
  <2>1. \A n \in T : IsFiniteSet(0 .. n) /\ 0 .. n \subseteq Nat
    BY FS_Interval
  <2> QED  BY <2>1 DEF FiniteSubsetsOf
<1>2. \E x \in U : \A y \in U : <<y, x>> \notin StrictSubsetOrdering(Nat)
  <2>1. U # {}
    OBVIOUS
  <2> HIDE DEF U
  <2> QED  BY <1>1, <2>1, FS_StrictSubsetOrderingWellFounded, WFMin
<1>3. PICK n \in T : \A m \in T : <<0 .. m, 0 .. n>> \notin StrictSubsetOrdering(Nat)
  BY <1>2
<1>4. ASSUME NEW m \in T, m < n
      PROVE  FALSE
  <2>1. 0 .. m \subseteq 0 .. n /\ n \in 0 .. n /\ n \notin 0 .. m
    BY <1>4
  <2>2. 0 .. m \in SUBSET Nat /\ 0 .. n \in SUBSET Nat /\ 0 .. m # 0 .. n
    BY <2>1
  <2>3. <<0 .. m, 0 .. n>> \in StrictSubsetOrdering(Nat)
    BY <2>1, <2>2 DEF StrictSubsetOrdering
  <2> QED  BY <1>3, <2>3
<1> QED  BY <1>4

-----------------------------------------------------------------------------
(* The walk of otrl_context_find_recent_secure_instance.                   *)

Step(best, c) ==
  IF c = Master THEN Master
  ELSE IF Beats(c, best[c - 1]) THEN c ELSE best[c - 1]

IsWalk(best) == best = [c \in Contexts |-> Step(best, c)]

\* There is a walk that far.
Walked(n) == \E g \in [0 .. n -> 0 .. n] : \A c \in 0 .. n : g[c] = Step(g, c)

LEMMA ThereIsAWalk == \E best : IsWalk(best)
<1>1. Walked(N)
  <2> SUFFICES ASSUME ~Walked(N)
               PROVE  FALSE
    OBVIOUS
  <2> DEFINE T == {n \in 0 .. N : ~Walked(n)}
  <2>1. PICK n \in T : \A m \in T : n <= m
    <3>1. T \in SUBSET Nat /\ N \in T
      BY Numbers
    <3> HIDE DEF T
    <3> QED  BY <3>1, LeastNumber
  <2>2. n \in 0 .. N /\ ~Walked(n)
    OBVIOUS
  <2>3. n # 0
    <3>1. [c \in 0 .. 0 |-> 0] \in [0 .. 0 -> 0 .. 0]
          /\ \A c \in 0 .. 0 : [d \in 0 .. 0 |-> 0][c] = Step([d \in 0 .. 0 |-> 0], c)
      BY DEF Step, Master
    <3> QED  BY <2>2, <3>1 DEF Walked
  <2>4. Walked(n - 1)
    <3>1. n - 1 \in 0 .. N /\ n - 1 < n
      BY <2>2, <2>3, Numbers
    <3> QED  BY <2>1, <3>1, Numbers
  <2>5. PICK g \in [0 .. n - 1 -> 0 .. n - 1] : \A c \in 0 .. n - 1 : g[c] = Step(g, c)
    BY <2>4 DEF Walked
  <2> DEFINE h == [c \in 0 .. n |-> IF c = n THEN Step(g, n) ELSE g[c]]
  <2>6. Step(g, n) \in 0 .. n
    BY <2>2, <2>3, <2>5 DEF Step, Master
  <2>7. h \in [0 .. n -> 0 .. n]
    BY <2>2, <2>3, <2>5, <2>6
  <2>8. ASSUME NEW c \in 0 .. n
        PROVE  h[c] = Step(h, c)
    <3>1. c # 0 => h[c - 1] = g[c - 1]
      BY <2>2
    <3>2. Step(h, c) = Step(g, c)
      <4> HIDE DEF h
      <4> QED  BY <3>1 DEF Step, Master
    <3> QED  BY <2>2, <2>5, <3>2
  <2> QED  BY <2>2, <2>7, <2>8 DEF Walked
<1>2. PICK g \in [Contexts -> Contexts] : \A c \in Contexts : g[c] = Step(g, c)
  BY <1>1, Numbers DEF Walked
<1>3. IsWalk(g)
  BY <1>2 DEF IsWalk
<1> QED  BY <1>3

LEMMA BestIsWalked == \E best : IsWalk(best) /\ Best = best[N]
<1> DEFINE best == CHOOSE best : IsWalk(best)
<1>1. IsWalk(best)
  BY ThereIsAWalk
<1>2. Best = best[N]
  BY DEF Best, IsWalk, Step
<1> QED  BY <1>1, <1>2

\* What holds of the walk's start, and is kept by each of its steps, holds at its end.
LEMMA WalkInduction ==
  ASSUME NEW best, IsWalk(best),
         NEW P, P \subseteq Contexts \X Contexts,
         <<Master, Master>> \in P,
         \A c \in Contexts \ {Master}, b \in Contexts :
           <<c - 1, b>> \in P => <<c, IF Beats(c, b) THEN c ELSE b>> \in P
  PROVE  \A c \in Contexts : <<c, best[c]>> \in P
<1> SUFFICES ASSUME NEW d \in Contexts, <<d, best[d]>> \notin P
             PROVE  FALSE
  OBVIOUS
<1> DEFINE T == {c \in Contexts : <<c, best[c]>> \notin P}
<1>1. PICK c \in T : \A m \in T : c <= m
  <2>1. T \in SUBSET Nat /\ d \in T
    BY Numbers
  <2> HIDE DEF T
  <2> QED  BY <2>1, LeastNumber
<1>2. c \in Contexts /\ <<c, best[c]>> \notin P
  OBVIOUS
<1>3. best[c] = Step(best, c)
  BY <1>2 DEF IsWalk
<1>4. c # Master
  BY <1>2, <1>3 DEF Step
<1>5. c - 1 \in Contexts /\ c - 1 < c
  BY <1>2, <1>4, Numbers DEF Master
<1>6. <<c - 1, best[c - 1]>> \in P
  BY <1>1, <1>5, Numbers
<1>7. best[c - 1] \in Contexts
  BY <1>6
<1>8. best[c] = IF Beats(c, best[c - 1]) THEN c ELSE best[c - 1]
  BY <1>3, <1>4 DEF Step
<1> QED  BY <1>2, <1>4, <1>6, <1>7, <1>8

LEMMA BestIsThere == Best \in Contexts
<1>1. PICK best : IsWalk(best) /\ Best = best[N]
  BY BestIsWalked
<1> DEFINE P == Contexts \X Contexts
<1>2. \A c \in Contexts : <<c, best[c]>> \in P
  <2>1. <<Master, Master>> \in P
    BY Numbers
  <2>2. \A c \in Contexts \ {Master}, b \in Contexts :
          <<c - 1, b>> \in P => <<c, IF Beats(c, b) THEN c ELSE b>> \in P
    OBVIOUS
  <2>3. P \subseteq Contexts \X Contexts
    OBVIOUS
  <2> HIDE DEF P
  <2> QED  BY <1>1, <2>1, <2>2, <2>3, WalkInduction
<1>3. \A c \in Contexts : best[c] \in Contexts
  BY <1>2
<1>4. N \in Contexts
  BY Numbers
<1> QED  BY <1>1, <1>3, <1>4

\* The walk loses no private context to less than an authenticated one: it leaves one
\* that is private for another that is, and one that is trusted for another that is.
LEMMA BestIsPrivate ==
  ASSUME Private(context)
  PROVE  PrivateIsBest
<1>1. PICK best : IsWalk(best) /\ Best = best[N]
  BY BestIsWalked
<1> DEFINE Secure(b) == context[b].msgstate = "ENCRYPTED" \/ IsTrusted(b)
           P == {p \in Contexts \X Contexts :
                   (\E d \in Contexts : d <= p[1] /\ context[d].msgstate = "ENCRYPTED")
                     => Secure(p[2])}
<1>2. <<Master, Master>> \in P
  <2>1. \A d \in Contexts : d <= Master => d = Master
    BY Numbers DEF Master
  <2> QED  BY <2>1, Numbers
<1>3. ASSUME NEW c \in Contexts \ {Master}, NEW b \in Contexts, <<c - 1, b>> \in P
      PROVE  <<c, IF Beats(c, b) THEN c ELSE b>> \in P
  <2>1. \A d \in Contexts : d <= c => d = c \/ d <= c - 1
    BY Numbers
  <2>2. CASE Beats(c, b)
    <3>1. Secure(b) => Secure(c)
      BY <2>2 DEF Beats, Improves
    <3> QED  BY <1>3, <2>1, <2>2, <3>1
  <2>3. CASE ~Beats(c, b)
    <3>1. context[c].msgstate = "ENCRYPTED" => Secure(b)
      BY <2>3 DEF Beats, Improves, Private
    <3> QED  BY <1>3, <2>1, <2>3, <3>1
  <2> QED  BY <2>2, <2>3
<1>4. \A c \in Contexts : <<c, best[c]>> \in P
  <2>1. P \subseteq Contexts \X Contexts
    OBVIOUS
  <2> HIDE DEF P
  <2> QED  BY <1>1, <1>2, <1>3, <2>1, WalkInduction
<1>5. <<N, Best>> \in P /\ \A d \in Contexts : d <= N
  BY <1>1, <1>4, Numbers
<1> QED  BY <1>5 DEF PrivateIsBest

-----------------------------------------------------------------------------
(* The operators on lists.                                                 *)

\* g differs from f in when something was received and in what is waited for, only.
Alike(f, g) ==
  \A c \in Contexts :
    /\ g[c].exists = f[c].exists
    /\ g[c].msgstate = f[c].msgstate
    /\ g[c].active = f[c].active
    /\ g[c].lastmessage = f[c].lastmessage
    /\ g[c].may_retransmit = f[c].may_retransmit

Good(f, t, e) == Len(t) \in Nat /\ f \in Lists(Len(t)) /\ Private(f) /\ Marks(f, t, e)

LEMMA AlikeIsGood ==
  ASSUME NEW f, NEW g, NEW t, NEW e, Good(f, t, e), g \in Lists(Len(t)), Alike(f, g)
  PROVE  Good(g, t, e)
<1>1. Private(g)
  BY Numbers DEF Good, Alike, Private
<1>2. Marks(g, t, e)
  BY DEF Good, Alike, Marks
<1> QED  BY <1>1, <1>2 DEF Good

LEMMA StampIsGood ==
  ASSUME NEW f, NEW t, NEW e, Good(f, t, e), NEW c \in Contexts, NEW tie
  PROVE  Good(Stamp(f, c, tie), t, e) /\ Alike(f, Stamp(f, c, tie))
<1> DEFINE n == Len(t)
           latest == CHOOSE r \in {f[d].lastrecv : d \in Contexts} :
                       \A d \in Contexts : f[d].lastrecv <= r
           time == [d \in Contexts |->
                      IF d # c THEN f[d].lastrecv
                      ELSE IF tie /\ latest > 0 THEN latest ELSE latest + 1]
           rank(d) == Cardinality({time[x] : x \in Contexts} \cap 1 .. time[d])
           g == [d \in Contexts |-> [f[d] EXCEPT !.lastrecv = rank(d)]]
<1>1. Stamp(f, c, tie) = g
  BY DEF Stamp
<1>2. \A d \in Contexts : rank(d) \in 0 .. N + 1
  <2> HIDE DEF time
  <2>1. [x \in Contexts |-> time[x]] \in Surjection(Contexts, {time[x] : x \in Contexts})
    BY DEF Surjection
  <2>2. IsFiniteSet({time[x] : x \in Contexts})
        /\ Cardinality({time[x] : x \in Contexts}) <= N + 1
    BY <2>1, Numbers, FS_Surjection
  <2> DEFINE all == {time[x] : x \in Contexts}
  <2>3. Cardinality(all) \in Nat
    BY <2>2, FS_CardinalityType
  <2> SUFFICES ASSUME NEW d \in Contexts
               PROVE  rank(d) \in 0 .. N + 1
    OBVIOUS
  <2> DEFINE some == all \cap 1 .. time[d]
  <2> HIDE DEF all
  <2>4. IsFiniteSet(some) /\ Cardinality(some) <= Cardinality(all)
    BY <2>2, FS_Intersection DEF all
  <2>5. Cardinality(some) \in Nat
    BY <2>4, FS_CardinalityType
  <2>6. Cardinality(some) \in 0 .. N + 1
    BY <2>2, <2>3, <2>4, <2>5, Numbers DEF all
  <2> QED  BY <2>6 DEF all
<1> HIDE DEF rank
<1>3. \A d \in Contexts : f[d] \in ContextType(n)
  BY DEF Good, Lists
<1>4. g \in Lists(n)
  BY <1>2, <1>3 DEF Lists, ContextType
<1>5. Alike(f, g)
  BY <1>3 DEF Alike, ContextType
<1> QED  BY <1>1, <1>4, <1>5, AlikeIsGood

\* Waiting for another message of the exchange.
LEMMA WaitingIsGood ==
  ASSUME NEW f, NEW t, NEW e, Good(f, t, e), NEW c \in Contexts,
         NEW a \in {"NONE", "AWAITING_DHKEY", "AWAITING_REVEALSIG", "AWAITING_SIG"}
  PROVE  Good([f EXCEPT ![c].authstate = a], t, e)
<1> DEFINE g == [f EXCEPT ![c].authstate = a]
<1>1. \A d \in Contexts : f[d] \in ContextType(Len(t))
  BY DEF Good, Lists
<1>2. g \in Lists(Len(t))
  BY <1>1, ZenonT(30) DEF Good, Lists, ContextType
<1>3. \A d \in Contexts \ {c} : g[d] = f[d]
  BY DEF Good, Lists
<1>4. g[c] = [f[c] EXCEPT !.authstate = a]
  BY DEF Good, Lists
<1>5. Alike(f, g)
  BY <1>1, <1>3, <1>4 DEF Alike, ContextType
<1> QED  BY <1>2, <1>5, AlikeIsGood

LEMMA ClientsAreContexts == ASSUME Flags, NEW c \in clients PROVE c \in Contexts
BY ClientsHaveContexts DEF Flags

\* One context changes, and what its mark says is right.
LEMMA ChangeIsGood ==
  ASSUME NEW f, NEW t, NEW e, Good(f, t, e), NEW c \in Contexts, NEW g,
         g \in Lists(Len(t)),
         \A d \in Contexts \ {c} : g[d] = f[d],
         g[Master].exists,
         g[c].msgstate = "ENCRYPTED" => g[c].exists /\ (c = Master => g[c].active),
         g[c].lastmessage \in {NULL, f[c].lastmessage},
         g[c].may_retransmit \in {0, f[c].may_retransmit},
         g[c].lastmessage = NULL => g[c].may_retransmit # 2
  PROVE  Good(g, t, e)
<1>1. Private(g)
  BY Numbers DEF Good, Private
<1>2. Marks(g, t, e)
  <2>1. \A d \in Contexts : g[d].lastmessage \in {NULL, f[d].lastmessage}
                            /\ g[d].may_retransmit \in {0, f[d].may_retransmit}
    OBVIOUS
  <2>2. \A d \in Contexts : g[d].may_retransmit = 2 => g[d].lastmessage # NULL
    BY DEF Good, Marks
  <2>3. \A d \in Contexts : g[d].may_retransmit # 0 /\ g[d].lastmessage # NULL
                              => t[g[d].lastmessage].copies <= e
    BY <2>1 DEF Good, Marks
  <2>4. \A d, x \in Contexts :
          g[d].lastmessage = g[x].lastmessage /\ g[d].lastmessage # NULL => d = x
    BY <2>1 DEF Good, Marks
  <2> QED  BY <2>2, <2>3, <2>4 DEF Marks
<1> QED  BY <1>1, <1>2 DEF Good

LEMMA SecuredIsGood ==
  ASSUME NEW f, NEW t, NEW e, Good(f, t, e), Flags, NEW c \in clients, f[c].exists
  PROVE  /\ Good(Secured(f, c), t, e)
         /\ Secured(f, c)[c].lastmessage = f[c].lastmessage
<1> DEFINE g == Secured(f, c)
<1>1. c \in Contexts
  BY ClientsAreContexts
<1>2. f[c] \in ContextType(Len(t)) /\ f \in Lists(Len(t))
  BY <1>1 DEF Good, Lists
<1>3. \A d \in Contexts \ {c} : g[d] = f[d]
  BY <1>1, <1>2 DEF Secured, Lists
<1>4. g[c] = [f[c] EXCEPT !.msgstate = "ENCRYPTED", !.active = TRUE, !.authstate = "NONE"]
  BY <1>1, <1>2 DEF Secured, Lists, ContextType
<1>5. /\ g[c] \in ContextType(Len(t))
      /\ g[c].msgstate = "ENCRYPTED" /\ g[c].active /\ g[c].exists
      /\ g[c].lastmessage = f[c].lastmessage /\ g[c].may_retransmit = f[c].may_retransmit
  <2> DEFINE r == f[c]
             s == g[c]
  <2> HIDE DEF r, s, g
  <2>1. r \in ContextType(Len(t)) /\ r.exists
        /\ s = [r EXCEPT !.msgstate = "ENCRYPTED", !.active = TRUE, !.authstate = "NONE"]
    BY <1>2, <1>4 DEF r, s
  <2>2. s \in ContextType(Len(t)) /\ s.msgstate = "ENCRYPTED" /\ s.active
        /\ s.lastmessage = r.lastmessage /\ s.may_retransmit = r.may_retransmit
    BY <2>1 DEF ContextType
  <2>3. s.exists
    BY <2>1 DEF ContextType
  <2> QED  BY <2>2, <2>3 DEF r, s
<1>6. g \in Lists(Len(t))
  BY <1>1, <1>2, <1>3, <1>5 DEF Secured, Lists
<1>7. f[Master].exists /\ (f[c].lastmessage = NULL => f[c].may_retransmit # 2)
  BY <1>1 DEF Good, Private, Marks
<1>8. g[Master].exists
  BY <1>3, <1>5, <1>7, Numbers
<1> HIDE DEF g
<1>9. Good(g, t, e)
  BY <1>1, <1>3, <1>5, <1>6, <1>7, <1>8, ChangeIsGood
<1> QED  BY <1>5, <1>9 DEF g

LEMMA ForcedIsGood ==
  ASSUME NEW f, NEW t, NEW e, Good(f, t, e), NEW c \in Contexts,
         NEW state \in {"PLAINTEXT", "FINISHED"}
  PROVE  Good(Forced(f, c, state), t, e)
<1> DEFINE g == Forced(f, c, state)
<1>1. f[c] \in ContextType(Len(t)) /\ f \in Lists(Len(t))
  BY DEF Good, Lists
<1>2. \A d \in Contexts \ {c} : g[d] = f[d]
  BY <1>1 DEF Forced, Lists
<1>3. g[c] = [f[c] EXCEPT !.msgstate = state, !.active = FALSE, !.authstate = "NONE",
                          !.lastmessage = NULL, !.may_retransmit = 0]
  BY <1>1 DEF Forced, Lists, ContextType
<1>4. /\ g[c] \in ContextType(Len(t))
      /\ g[c].msgstate = state /\ (f[c].exists => g[c].exists)
      /\ g[c].lastmessage = NULL /\ g[c].may_retransmit = 0
  <2> DEFINE r == f[c]
             s == g[c]
  <2> HIDE DEF r, s, g
  <2>1. r \in ContextType(Len(t)) /\ Len(t) \in Nat
        /\ s = [r EXCEPT !.msgstate = state, !.active = FALSE, !.authstate = "NONE",
                         !.lastmessage = NULL, !.may_retransmit = 0]
    BY <1>1, <1>3 DEF r, s, Good
  <2> DEFINE n == Len(t)
  <2>2. n \in Nat /\ NULL \in 0 .. n
    BY <2>1 DEF NULL
  <2> HIDE DEF n
  <2>3. s \in ContextType(n)
    <3>1. r \in ContextType(n)
      BY <2>1 DEF n
    <3>2. s = [exists |-> r.exists, msgstate |-> state, authstate |-> "NONE",
               active |-> FALSE, lastmessage |-> NULL, may_retransmit |-> 0,
               lastrecv |-> r.lastrecv]
      BY <2>1, <3>1 DEF ContextType
    <3>3. r.exists \in BOOLEAN /\ r.lastrecv \in 0 .. N + 1
      BY <3>1 DEF ContextType
    <3> QED  BY <2>2, <3>2, <3>3 DEF ContextType
  <2>4. s \in ContextType(Len(t)) /\ s.msgstate = state
        /\ s.lastmessage = NULL /\ s.may_retransmit = 0
    BY <2>1, <2>3 DEF ContextType, n
  <2>5. r.exists => s.exists
    BY <2>1 DEF ContextType
  <2> QED  BY <2>4, <2>5 DEF r, s
<1>5. g \in Lists(Len(t))
  BY <1>1, <1>2, <1>4 DEF Forced, Lists
<1>6. f[Master].exists
  BY DEF Good, Private
<1>7. g[Master].exists
  BY <1>2, <1>4, <1>6, Numbers
<1> HIDE DEF g
<1>8. Good(g, t, e)
  BY <1>2, <1>4, <1>5, <1>7, ChangeIsGood
<1> QED  BY <1>8 DEF g

LEMMA TakenOverIsGood ==
  ASSUME NEW f, NEW t, NEW e, Good(f, t, e), NEW c \in Contexts, f[c].exists
  PROVE  Good(TakenOver(f, c), t, e)
<1>1. CASE ~(c # Master /\ f[Master].authstate = "AWAITING_DHKEY")
  BY <1>1 DEF TakenOver
<1>2. CASE c # Master /\ f[Master].authstate = "AWAITING_DHKEY"
  <2> DEFINE g == TakenOver(f, c)
             state == f[Master].msgstate
  <2>1. /\ f[c] \in ContextType(Len(t)) /\ f \in Lists(Len(t))
        /\ state \in {"PLAINTEXT", "ENCRYPTED", "FINISHED"}
    BY Numbers DEF Good, Lists, ContextType
  <2>2. \A d \in Contexts \ {c} : g[d] = f[d]
    BY <1>2, <2>1 DEF TakenOver, Lists
  <2>3. g[c] = [f[c] EXCEPT !.msgstate = state, !.authstate = "AWAITING_DHKEY"]
    BY <1>2, <2>1 DEF TakenOver, Lists, ContextType
  <2> HIDE DEF state
  <2>4. /\ g[c] \in ContextType(Len(t))
        /\ g[c].lastmessage = f[c].lastmessage /\ g[c].may_retransmit = f[c].may_retransmit
    BY <2>1, <2>3 DEF ContextType
  <2>5. g[c].exists
    BY <2>1, <2>3 DEF ContextType
  <2>6. g \in Lists(Len(t))
    BY <1>2, <2>1, <2>2, <2>4 DEF TakenOver, Lists
  <2>7. f[c].lastmessage = NULL => f[c].may_retransmit # 2
    BY DEF Good, Marks
  <2>8. g[Master].exists
    BY <1>2, <2>2, Numbers DEF Good, Private
  <2> HIDE DEF g
  <2>9. Good(g, t, e)
    BY <1>2, <2>2, <2>4, <2>5, <2>6, <2>7, <2>8, ChangeIsGood
  <2> QED  BY <2>9 DEF g
<1> QED  BY <1>1, <1>2

LEMMA Unmarked ==
  ASSUME NEW n, NULL \in 0 .. n, NEW m \in ContextType(n)
  PROVE  /\ [m EXCEPT !.lastmessage = NULL, !.may_retransmit = 0] \in ContextType(n)
         /\ [m EXCEPT !.lastmessage = NULL, !.may_retransmit = 0].msgstate = m.msgstate
<1> DEFINE k == [m EXCEPT !.lastmessage = NULL]
           j == [k EXCEPT !.may_retransmit = 0]
<1>1. k \in ContextType(n) /\ k.msgstate = m.msgstate
  BY DEF ContextType
<1> HIDE DEF k
<1>2. j \in ContextType(n) /\ j.msgstate = k.msgstate
  BY <1>1 DEF ContextType
<1>3. j = [m EXCEPT !.lastmessage = NULL, !.may_retransmit = 0]
  BY DEF k
<1> QED  BY <1>1, <1>2, <1>3

\* The mark that waits at the master moves on to the new context: two do not have it.
LEMMA AdoptedIsGood ==
  ASSUME NEW f, NEW t, NEW e, Good(f, t, e), Flags, NEW c \in clients, ~f[c].exists
  PROVE  Good(Adopted(f, c), t, e) /\ Adopted(f, c)[c].exists
<1> DEFINE n == Len(t)
           g == Adopted(f, c)
           m == f[Master]
           r == f[c]
           s == g[c]
           moves == m.may_retransmit # 0
           state == m.msgstate
<1>1. c \in Contexts /\ c # Master
  BY ClientsAreContexts DEF Good, Private
<1>2. f \in Lists(n) /\ r \in ContextType(n) /\ m \in ContextType(n) /\ Master \in Contexts
  BY <1>1, Numbers DEF Good, Lists
<1>3. /\ m.exists /\ state \in {"PLAINTEXT", "ENCRYPTED", "FINISHED"}
      /\ state = "ENCRYPTED" => m.active
  BY <1>2 DEF Good, Private, ContextType
<1>4. \A d \in Contexts \ {c, Master} : g[d] = f[d]
  BY <1>1, <1>2 DEF Adopted, Lists
<1>5. g[Master] = IF moves THEN [m EXCEPT !.lastmessage = NULL, !.may_retransmit = 0] ELSE m
  BY <1>1, <1>2 DEF Adopted, Lists, ContextType
<1>6. s = IF moves
          THEN [r EXCEPT !.exists = TRUE, !.msgstate = state,
                         !.lastmessage = m.lastmessage, !.may_retransmit = m.may_retransmit]
          ELSE [r EXCEPT !.exists = TRUE, !.msgstate = state]
  BY <1>1, <1>2, <1>3 DEF Adopted, Lists, ContextType
<1>7. DOMAIN g = Contexts /\ g = [d \in Contexts |-> g[d]]
  BY <1>1, <1>2 DEF Adopted, Lists
<1>8. n \in Nat /\ NULL \in 0 .. n
  BY DEF Good, NULL
<1> HIDE DEF n, g, m, r, s, state
<1>9. s \in ContextType(n)
  BY <1>2, <1>3, <1>6 DEF ContextType
<1>10. s.exists
  BY <1>2, <1>6 DEF ContextType
<1>11. /\ moves => s.lastmessage = m.lastmessage /\ s.may_retransmit = m.may_retransmit
       /\ ~moves => s.lastmessage = r.lastmessage /\ s.may_retransmit = r.may_retransmit
  BY <1>2, <1>6 DEF ContextType
<1>12. g[Master] \in ContextType(n) /\ g[Master].msgstate = state
  <2> DEFINE k == [m EXCEPT !.lastmessage = NULL, !.may_retransmit = 0]
  <2>1. k \in ContextType(n) /\ k.msgstate = m.msgstate
    BY <1>2, <1>8, Unmarked
  <2> QED  BY <1>2, <1>5, <2>1 DEF state
<1>13. g[Master].exists /\ (state = "ENCRYPTED" => g[Master].active)
  <2>1. g[Master].exists
    BY <1>2, <1>3, <1>5 DEF ContextType
  <2>2. m.active => g[Master].active
    BY <1>2, <1>5 DEF ContextType
  <2> QED  BY <1>3, <2>1, <2>2
<1>14. /\ moves => g[Master].lastmessage = NULL /\ g[Master].may_retransmit = 0
       /\ ~moves => g[Master] = m
  BY <1>2, <1>5 DEF ContextType
<1>15. g \in Lists(n)
  <2>1. \A d \in Contexts : g[d] \in ContextType(n)
    BY <1>2, <1>4, <1>9, <1>12 DEF Lists, s
  <2> QED  BY <1>7, <2>1 DEF Lists
<1>16. Private(g)
  BY <1>4, <1>10, <1>12, <1>13 DEF Good, Private, s
<1>17. Marks(g, t, e)
  <2> DEFINE at(d) == IF d = c /\ moves THEN Master ELSE d
  <2>1. \A d \in Contexts :
          /\ at(d) \in Contexts
          /\ g[d].lastmessage # NULL \/ g[d].may_retransmit # 0
               => /\ d = Master => ~moves
                  /\ g[d].lastmessage = f[at(d)].lastmessage
                  /\ g[d].may_retransmit = f[at(d)].may_retransmit
    <3> TAKE d \in Contexts
    <3>1. CASE d = c
      BY <1>1, <1>2, <1>11, <3>1 DEF s, m, r
    <3>2. CASE d = Master
      <4>1. at(d) = Master
        BY <1>1, <3>2
      <4> HIDE DEF at
      <4> QED  BY <1>2, <1>14, <3>2, <4>1 DEF m
    <3>3. CASE d \notin {c, Master}
      BY <1>4, <3>3
    <3> QED  BY <3>1, <3>2, <3>3
  <2>2. \A d, x \in Contexts :
          at(d) = at(x) /\ (d = Master => ~moves) /\ (x = Master => ~moves) => d = x
    BY <1>1
  <2> HIDE DEF at, moves
  <2>3. \A d \in Contexts : g[d].may_retransmit = 2 => g[d].lastmessage # NULL
    BY <2>1 DEF Good, Marks
  <2>4. \A d \in Contexts : g[d].may_retransmit # 0 /\ g[d].lastmessage # NULL
                              => t[g[d].lastmessage].copies <= e
    BY <2>1 DEF Good, Marks
  <2>5. \A d, x \in Contexts :
          g[d].lastmessage = g[x].lastmessage /\ g[d].lastmessage # NULL => d = x
    BY <2>1, <2>2 DEF Good, Marks
  <2> QED  BY <2>3, <2>4, <2>5 DEF Marks
<1> QED  BY <1>10, <1>15, <1>16, <1>17, <1>8 DEF Good, n, g, s
-----------------------------------------------------------------------------
(* What the program starts with, and starts again with.                    *)

LEMMA StartIsGood ==
  ASSUME NEW t, NEW e, Len(t) \in Nat
  PROVE  Good(AtStart, t, e)
<1> DEFINE n == Len(t)
<1>1. n \in Nat
  OBVIOUS
<1> HIDE DEF n
<1>2. ASSUME NEW c \in Contexts
      PROVE  /\ AtStart[c] \in ContextType(n) /\ AtStart[c].msgstate = "PLAINTEXT"
             /\ AtStart[c].may_retransmit = 0 /\ AtStart[c].lastmessage = NULL
             /\ c = Master => AtStart[c].exists
  <2> DEFINE x == c = Master
             z == 0
  <2>1. AtStart[c] = [exists |-> x, msgstate |-> "PLAINTEXT", authstate |-> "NONE",
                      active |-> FALSE, lastmessage |-> z, may_retransmit |-> z,
                      lastrecv |-> z]
    BY DEF AtStart, NewContext, NULL
  <2>2. x \in BOOLEAN /\ (c = Master => x)
    OBVIOUS
  <2>3. z \in 0 .. n /\ z \in 0 .. 2 /\ z \in 0 .. N + 1 /\ z = 0 /\ z = NULL
    BY <1>1, Numbers DEF NULL
  <2> HIDE DEF x, z
  <2>4. AtStart[c] \in ContextType(n)
    BY <2>1, <2>2, <2>3 DEF ContextType
  <2>5. c = Master => AtStart[c].exists
    BY <2>1, <2>2
  <2> QED  BY <2>1, <2>3, <2>4, <2>5
<1>3. AtStart \in Lists(n)
  BY <1>2 DEF AtStart, Lists
<1>4. Private(AtStart) /\ Marks(AtStart, t, e)
  BY <1>2, Numbers DEF Private, Marks
<1> QED  BY <1>1, <1>3, <1>4 DEF Good, n

-----------------------------------------------------------------------------
(* The texts.                                                              *)

\* Another text is typed: it is a new one, and no mark is about it.
LEMMA TypedIsGood ==
  ASSUME NEW f, NEW t, NEW e \in Nat, Good(f, t, e), Sent(t, e),
         NEW r \in Text, r.copies <= 1,
         owned /\ r.required => r.went # "clear"
  PROVE  /\ Good(f, Append(t, r), e) /\ Sent(Append(t, r), e)
         /\ Len(Append(t, r)) = Len(t) + 1 /\ Append(t, r)[Len(t) + 1] = r
         /\ \A d \in Contexts : f[d].lastmessage # Len(t) + 1
<1> DEFINE n == Len(t)
           u == Append(t, r)
<1>1. t \in Seq(Text) /\ n \in Nat /\ DOMAIN t = 1 .. n
  BY LenProperties DEF Sent
<1>2. /\ u \in Seq(Text) /\ Len(u) = n + 1 /\ DOMAIN u = 1 .. n + 1
      /\ u[n + 1] = r /\ \A k \in 1 .. n : u[k] = t[k]
  <2>1. u \in Seq(Text) /\ Len(u) = n + 1 /\ u[n + 1] = r /\ \A k \in 1 .. n : u[k] = t[k]
    BY <1>1, AppendProperties
  <2> QED  BY <2>1, LenProperties
<1>3. \A d \in Contexts : f[d] \in ContextType(n) /\ f[d].lastmessage \in 0 .. n
  BY DEF Good, Lists, ContextType
<1> HIDE DEF n, u
<1>4. f \in Lists(n + 1)
  <2>1. 0 .. n \subseteq 0 .. n + 1
    BY <1>1
  <2>2. ContextType(n) \subseteq ContextType(n + 1)
    BY <2>1 DEF ContextType
  <2> QED  BY <1>3, <2>2 DEF Good, Lists
<1>5. Private(f)
  BY DEF Good
<1>6. Marks(f, u, e)
  <2>1. \A d \in Contexts : f[d].lastmessage # NULL
                              => u[f[d].lastmessage] = t[f[d].lastmessage]
    BY <1>1, <1>2, <1>3 DEF NULL
  <2> QED  BY <2>1 DEF Good, Marks
<1>7. Sent(u, e)
  <2>1. ASSUME NEW k \in 1 .. n + 1
        PROVE  u[k].copies <= 1 + e /\ (owned /\ u[k].required => u[k].went # "clear")
    <3>1. CASE k = n + 1
      <4>1. r.copies \in Nat
        BY DEF Text
      <4> QED  BY <1>2, <3>1, <4>1
    <3>2. CASE k # n + 1
      <4>1. k \in 1 .. n
        BY <1>1, <3>2
      <4> QED  BY <1>1, <1>2, <4>1 DEF Sent
    <3> QED  BY <3>1, <3>2
  <2> QED  BY <1>2, <2>1 DEF Sent
<1>8. \A d \in Contexts : f[d].lastmessage # n + 1
  BY <1>1, <1>3
<1> QED  BY <1>1, <1>2, <1>4, <1>5, <1>6, <1>7, <1>8 DEF Good, n, u

\* A new text is kept: marked, before it was sent, or sent and not marked.
Kept(f, c, x, m) == [f EXCEPT ![c].lastmessage = x, ![c].may_retransmit = m]

LEMMA KeptIsGood ==
  ASSUME NEW f, NEW t, NEW e \in Nat, Good(f, t, e), NEW c \in Contexts,
         NEW x \in 0 .. Len(t), \A d \in Contexts \ {c} : f[d].lastmessage = x => x = NULL,
         NEW m \in 0 .. 2, m = 2 => x # NULL, m # 0 /\ x # NULL => t[x].copies <= e
  PROVE  Good(Kept(f, c, x, m), t, e)
<1> DEFINE g == Kept(f, c, x, m)
           r == f[c]
           s == g[c]
           n == Len(t)
<1>1. r \in ContextType(n) /\ f \in Lists(n) /\ x \in 0 .. n
  BY DEF Good, Lists
<1>2. \A d \in Contexts \ {c} : g[d] = f[d]
  BY <1>1 DEF Kept, Lists
<1>3. s = [r EXCEPT !.lastmessage = x, !.may_retransmit = m]
  BY <1>1 DEF Kept, Lists, ContextType
<1>4. DOMAIN g = Contexts /\ g = [d \in Contexts |-> g[d]]
  BY <1>1 DEF Kept, Lists
<1> HIDE DEF r, s, n, g
<1>5. s \in ContextType(n) /\ s.msgstate = r.msgstate
      /\ s.lastmessage = x /\ s.may_retransmit = m
  <2> DEFINE k == [r EXCEPT !.lastmessage = x]
             j == [k EXCEPT !.may_retransmit = m]
  <2>1. k \in ContextType(n) /\ k.msgstate = r.msgstate /\ k.lastmessage = x
    BY <1>1 DEF ContextType
  <2>2. s = j
    BY <1>3
  <2> HIDE DEF k
  <2> QED  BY <2>1, <2>2 DEF ContextType
<1>6. (r.exists => s.exists) /\ (r.active => s.active)
  BY <1>1, <1>3 DEF ContextType
<1>7. g \in Lists(n)
  <2>1. \A d \in Contexts : g[d] \in ContextType(n)
    BY <1>1, <1>2, <1>5 DEF Lists, s
  <2> QED  BY <1>4, <2>1 DEF Lists
<1>8. Private(g)
  <2>1. /\ g[Master].msgstate = f[Master].msgstate
        /\ f[Master].exists => g[Master].exists
        /\ f[Master].active => g[Master].active
    BY <1>2, <1>5, <1>6, Numbers DEF r, s
  <2>2. \A d \in Contexts : g[d].msgstate = f[d].msgstate
          /\ (f[d].exists => g[d].exists) /\ (f[d].active => g[d].active)
    BY <1>2, <1>5, <1>6 DEF r, s
  <2> QED  BY <2>1, <2>2 DEF Good, Private
<1>9. Marks(g, t, e)
  <2>1. g[c].lastmessage = x /\ g[c].may_retransmit = m
    BY <1>5 DEF s
  <2>2. \A d \in Contexts :
          /\ g[d].may_retransmit = 2 => g[d].lastmessage # NULL
          /\ g[d].may_retransmit # 0 /\ g[d].lastmessage # NULL
               => t[g[d].lastmessage].copies <= e
    <3> TAKE d \in Contexts
    <3>1. CASE d = c
      BY <2>1, <3>1
    <3>2. CASE d # c
      BY <1>2, <3>2 DEF Good, Marks
    <3> QED  BY <3>1, <3>2
  <2>3. ASSUME NEW d \in Contexts, NEW y \in Contexts,
               g[d].lastmessage = g[y].lastmessage, g[d].lastmessage # NULL
        PROVE  d = y
    <3>1. CASE d # c /\ y # c
      BY <1>2, <2>3, <3>1 DEF Good, Marks
    <3>2. CASE d = c \/ y = c
      BY <1>2, <2>1, <2>3, <3>2
    <3> QED  BY <3>1, <3>2
  <2> QED  BY <2>2, <2>3 DEF Marks
<1> QED  BY <1>7, <1>8, <1>9 DEF Good, n, g
SentAgain(t, k) == [t EXCEPT ![k].copies = @ + 1]

\* maybe_resend: the text was marked, so it may go out once more, and is no more.
LEMMA ResentIsGood ==
  ASSUME NEW f, NEW t, NEW e \in Nat, Good(f, t, e), Sent(t, e), Flags,
         NEW c \in clients, f[c].exists, Resends(f, c)
  PROVE  /\ Good(AfterData(Secured(f, c), c, f[c].lastmessage),
                 SentAgain(t, f[c].lastmessage), e)
         /\ Sent(SentAgain(t, f[c].lastmessage), e)
<1> DEFINE h == Secured(f, c)
           x == f[c].lastmessage
           u == SentAgain(t, x)
           g == AfterData(h, c, x)
<1>1. c \in Contexts /\ Good(h, t, e) /\ h[c].lastmessage = x
  BY ClientsAreContexts, SecuredIsGood
<1>2. /\ x \in 0 .. Len(t) /\ x # NULL /\ t \in Seq(Text)
      /\ t[x].copies <= e
  BY <1>1 DEF Resends, Good, Lists, ContextType, Marks, Sent
<1>3. g = Kept(h, c, x, 0) /\ 0 \in 0 .. 2
  BY DEF AfterData, Kept
<1>4. \A d \in Contexts \ {c} : h[d].lastmessage # x
  BY <1>1, <1>2 DEF Good, Marks
<1> HIDE DEF h, g
<1>5. Good(g, t, e)
  BY <1>1, <1>2, <1>3, <1>4, KeptIsGood
<1>6. h \in Lists(Len(t))
  BY <1>1 DEF Good
<1>7. \A d \in Contexts \ {c} : g[d] = h[d]
  BY <1>1, <1>3, <1>6 DEF Kept, Lists
<1>8. g[c].may_retransmit = 0
  BY <1>1, <1>3, <1>6 DEF Kept, Lists, ContextType
<1> HIDE DEF x
<1>9. DOMAIN t = 1 .. Len(t) /\ Len(t) \in Nat /\ x \in DOMAIN t
  BY <1>2, LenProperties DEF NULL
<1>10. t[x] \in Text /\ t[x].copies \in Nat
  <2>1. t[x] \in Text
    BY <1>2, <1>9, ElementOfSeq
  <2> QED  BY <2>1 DEF Text
<1>11. /\ \A k \in DOMAIN t \ {x} : u[k] = t[k]
       /\ u[x] = [t[x] EXCEPT !.copies = @ + 1]
  BY <1>9 DEF SentAgain
<1>12. /\ u[x] \in Text /\ u[x].copies = t[x].copies + 1
       /\ u[x].went = t[x].went
  BY <1>10, <1>11 DEF Text
<1>13. u[x].required => t[x].required
  BY <1>10, <1>11 DEF Text
<1>14. u \in Seq(Text) /\ Len(u) = Len(t) /\ DOMAIN u = DOMAIN t
  <2>1. u = [t EXCEPT ![x] = [t[x] EXCEPT !.copies = @ + 1]]
    BY <1>9 DEF SentAgain
  <2>2. [t[x] EXCEPT !.copies = @ + 1] \in Text
    BY <1>11, <1>12
  <2> DEFINE v == [t[x] EXCEPT !.copies = @ + 1]
  <2> HIDE DEF v
  <2>3. u = [t EXCEPT ![x] = v] /\ v \in Text /\ x \in 1 .. Len(t)
    BY <1>9, <2>1, <2>2 DEF v
  <2>4. [t EXCEPT ![x] = v] \in Seq(Text) /\ Len([t EXCEPT ![x] = v]) = Len(t)
    BY <1>2, <2>3, ExceptSeq
  <2>5. u \in Seq(Text) /\ Len(u) = Len(t)
    BY <2>3, <2>4
  <2> QED  BY <1>9, <2>5, LenProperties
<1> HIDE DEF u
<1>15. Sent(u, e)
  <2>1. ASSUME NEW k \in DOMAIN t
        PROVE  u[k].copies <= 1 + e /\ (owned /\ u[k].required => u[k].went # "clear")
    <3>1. CASE k = x
      <4>1. u[k].copies <= 1 + e
        BY <1>2, <1>10, <1>12, <3>1
      <4>2. owned /\ u[k].required => u[k].went # "clear"
        BY <1>9, <1>12, <1>13, <3>1 DEF Sent
      <4> QED  BY <4>1, <4>2
    <3>2. CASE k # x
      BY <1>11, <3>2 DEF Sent
    <3> QED  BY <3>1, <3>2
  <2> QED  BY <1>14, <2>1 DEF Sent
<1>16. Marks(g, u, e)
  <2>1. \A d \in Contexts : g[d].may_retransmit # 0 /\ g[d].lastmessage # NULL
          => u[g[d].lastmessage] = t[g[d].lastmessage]
    <3> TAKE d \in Contexts
    <3>1. CASE d = c
      BY <1>8, <3>1
    <3>2. CASE d # c
      <4>1. g[d].lastmessage \in 0 .. Len(t) /\ g[d].lastmessage # x
        BY <1>4, <1>5, <1>7, <3>2 DEF Good, Lists, ContextType
      <4> QED  BY <1>9, <1>11, <4>1 DEF NULL
    <3> QED  BY <3>1, <3>2
  <2> QED  BY <1>5, <2>1 DEF Good, Marks
<1> QED  BY <1>5, <1>14, <1>15, <1>16 DEF Good, g, h, x, u

\* An OTR error message: whatever is kept may go out once more.
LEMMA ErrorIsGood ==
  ASSUME NEW f, NEW t, NEW e \in Nat, Good(f, t, e), Sent(t, e)
  PROVE  /\ Good(f, t, e + 1) /\ Sent(t, e + 1)
         /\ Good([f EXCEPT ![Master].may_retransmit = 1], t, e + 1)
<1>1. t \in Seq(Text) /\ DOMAIN t = 1 .. Len(t) /\ Len(t) \in Nat
  BY LenProperties DEF Sent
<1>2. \A k \in DOMAIN t : t[k].copies \in Nat /\ t[k].copies <= 1 + e
  <2>1. \A k \in DOMAIN t : t[k] \in Text
    BY <1>1, ElementOfSeq
  <2> QED  BY <2>1 DEF Sent, Text
<1>3. \A k \in DOMAIN t : t[k].copies <= 1 + (e + 1) /\ t[k].copies <= e + 1
  BY <1>2
<1>4. Sent(t, e + 1)
  BY <1>3 DEF Sent
<1>5. f \in Lists(Len(t)) /\ \A d \in Contexts : f[d].lastmessage \in 0 .. Len(t)
  BY DEF Good, Lists, ContextType
<1>6. \A d \in Contexts : f[d].lastmessage # NULL => t[f[d].lastmessage].copies <= e + 1
  BY <1>1, <1>3, <1>5 DEF NULL
<1>7. Good(f, t, e + 1)
  BY <1>6 DEF Good, Marks
<1> DEFINE x == f[Master].lastmessage
           g == [f EXCEPT ![Master].may_retransmit = 1]
<1>8. g = Kept(f, Master, x, 1) /\ 1 \in 0 .. 2 /\ 1 # 2
  <2>1. f[Master] \in ContextType(Len(t)) /\ Master \in Contexts
    BY <1>5, Numbers DEF Lists
  <2>2. [f[Master] EXCEPT !.may_retransmit = 1]
          = [f[Master] EXCEPT !.lastmessage = x, !.may_retransmit = 1]
    BY <2>1 DEF ContextType
  <2> DEFINE k == Kept(f, Master, x, 1)
  <2>3. /\ g = [d \in Contexts |-> g[d]] /\ \A d \in Contexts \ {Master} : g[d] = f[d]
        /\ g[Master] = [f[Master] EXCEPT !.may_retransmit = 1]
    BY <1>5, <2>1 DEF Lists, ContextType
  <2>4. /\ k = [d \in Contexts |-> k[d]] /\ \A d \in Contexts \ {Master} : k[d] = f[d]
        /\ k[Master] = [f[Master] EXCEPT !.lastmessage = x, !.may_retransmit = 1]
    BY <1>5, <2>1 DEF Kept, Lists, ContextType
  <2>5. \A d \in Contexts : g[d] = k[d]
    BY <2>2, <2>3, <2>4
  <2> HIDE DEF g, k
  <2>6. g = k
    BY <2>3, <2>4, <2>5
  <2> QED  BY <2>6 DEF k
<1>9. /\ x \in 0 .. Len(t) /\ (x # NULL => t[x].copies <= e + 1)
      /\ \A d \in Contexts \ {Master} : f[d].lastmessage = x => x = NULL
      /\ e + 1 \in Nat /\ Master \in Contexts
  BY <1>5, <1>6, Numbers DEF Good, Marks
<1> HIDE DEF x, g
<1>10. Good(g, t, e + 1)
  BY <1>7, <1>8, <1>9, KeptIsGood
<1> QED  BY <1>4, <1>7, <1>10 DEF g
-----------------------------------------------------------------------------
(* Every step keeps the invariant.                                         *)

LEMMA IInvIsGood ==
  ASSUME IInv
  PROVE  Flags /\ errors \in Nat /\ Good(context, texts, errors) /\ Sent(texts, errors)
<1>1. texts \in Seq(Text)
  BY DEF IInv, Sent
<1>2. Len(texts) \in Nat
  BY <1>1, LenProperties
<1> QED  BY <1>2 DEF IInv, Good

LEMMA NextIsGood ==
  ASSUME Flags', clients' = clients, owned' = owned, errors' \in Nat,
         Good(context', texts', errors'), Sent(texts', errors')
  PROVE  IInv'
<1>1. Private(context)'
  BY DEF Good, Private
<1>2. Sent(texts, errors)'
  BY DEF Sent
<1>3. context' \in Lists(Len(texts')) /\ Marks(context', texts', errors')
  BY DEF Good
<1>4. Marks(context, texts, errors)'
  BY <1>3 DEF Marks
<1>5. (context \in Lists(Len(texts)))'
  BY <1>3 DEF Lists, ContextType
<1>6. (Flags /\ errors \in Nat)'
  OBVIOUS
<1> QED  BY <1>1, <1>2, <1>4, <1>5, <1>6 DEF IInv

LEMMA TypedStep ==
  ASSUME IInv, NEW went \in {"clear", "held", "sent", "dropped", "lost"}, Typed(went),
         owned /\ Requires => went # "clear"
  PROVE  /\ Good(context, texts', errors) /\ Sent(texts', errors)
         /\ Len(texts') = Len(texts) + 1
         /\ texts'[Len(texts')].copies = IF went = "sent" THEN 1 ELSE 0
         /\ \A d \in Contexts : context[d].lastmessage # Len(texts')
<1> DEFINE q == Requires
           n == IF went = "sent" THEN 1 ELSE 0
           r == [required |-> q, went |-> went, copies |-> n]
<1>1. q \in BOOLEAN /\ n \in Nat /\ n <= 1
  BY DEF Requires
<1>2. texts' = Append(texts, r)
  BY DEF Typed
<1>3. errors \in Nat /\ Good(context, texts, errors) /\ Sent(texts, errors)
  BY IInvIsGood
<1>4. owned /\ q => went # "clear"
  OBVIOUS
<1> HIDE DEF q, n
<1>5. r \in Text
  BY <1>1 DEF Text
<1>6. r.copies = n /\ r.went = went
  OBVIOUS
<1>7. r.required => q
  OBVIOUS
<1>8. r.copies <= 1 /\ (owned /\ r.required => r.went # "clear")
  BY <1>1, <1>4, <1>6, <1>7
<1> HIDE DEF r
<1>9. /\ Good(context, Append(texts, r), errors) /\ Sent(Append(texts, r), errors)
      /\ Len(Append(texts, r)) = Len(texts) + 1 /\ Append(texts, r)[Len(texts) + 1] = r
      /\ \A d \in Contexts : context[d].lastmessage # Len(texts) + 1
  BY <1>3, <1>5, <1>8, TypedIsGood
<1> QED  BY <1>2, <1>6, <1>9 DEF n

LEMMA TypeStep == ASSUME IInv, Type PROVE IInv'
<1> USE DEF Unaltered, Swallows
<1>1. Flags /\ errors \in Nat
  BY DEF IInv
<1>2. CASE TypePlain
  <2>1. Unaltered(privateConverstationEnded) \in {"clear", "dropped"}
    OBVIOUS
  <2>2. ~Requires /\ Typed(Unaltered(privateConverstationEnded)) /\ context' = context
    BY <1>2 DEF TypePlain, Requires
  <2>3. Good(context, texts', errors) /\ Sent(texts', errors)
    BY <2>1, <2>2, TypedStep
  <2>4. Flags' /\ clients' = clients /\ owned' = owned /\ errors' = errors
    BY <1>1, <1>2, <2>2 DEF TypePlain, Typed, Flags
  <2> QED  BY <1>1, <2>2, <2>3, <2>4, NextIsGood
<1>3. CASE TypeTagged
  <2>1. ~Requires /\ Typed("clear") /\ context' = context
    BY <1>3 DEF TypeTagged, Requires, Tags, SendsTags
  <2>2. Good(context, texts', errors) /\ Sent(texts', errors)
    BY <2>1, TypedStep
  <2>3. Flags' /\ clients' = clients /\ owned' = owned /\ errors' = errors
    BY <1>1, <1>3, <2>1 DEF TypeTagged, OfferSent, Typed, Flags
  <2> QED  BY <1>1, <2>1, <2>2, <2>3, NextIsGood
<1>4. CASE TypeRequired
  <2>1. Typed("held") /\ context' = Kept(context, Best, Len(texts'), 2)
    BY <1>4 DEF TypeRequired, Kept
  <2>2. /\ Good(context, texts', errors) /\ Sent(texts', errors)
        /\ Len(texts') = Len(texts) + 1 /\ texts'[Len(texts')].copies = 0
        /\ \A d \in Contexts : context[d].lastmessage # Len(texts')
    BY <2>1, TypedStep
  <2>3. Flags' /\ clients' = clients /\ owned' = owned /\ errors' = errors
    BY <1>1, <1>4, <2>1 DEF TypeRequired, OfferSent, Typed, Flags
  <2> DEFINE x == Len(texts')
  <2>4. x \in 0 .. Len(texts') /\ x # NULL /\ 2 \in 0 .. 2 /\ texts'[x].copies <= errors
    BY <1>1, <2>2 DEF NULL, IInv, Good
  <2>5. \A d \in Contexts \ {Best} : context[d].lastmessage = x => x = NULL
    BY <2>2
  <2> HIDE DEF x
  <2>6. Good(Kept(context, Best, x, 2), texts', errors)
    BY <1>1, <2>2, <2>4, <2>5, BestIsThere, KeptIsGood
  <2> QED  BY <1>1, <2>1, <2>2, <2>3, <2>6, NextIsGood DEF x
<1>5. CASE TypeEncrypted
  <2>1. Typed("sent") /\ context' = Kept(context, Best, Len(texts'), 0)
    BY <1>5 DEF TypeEncrypted, Kept, AfterData
  <2>2. /\ Good(context, texts', errors) /\ Sent(texts', errors)
        /\ Len(texts') = Len(texts) + 1
        /\ \A d \in Contexts : context[d].lastmessage # Len(texts')
    BY <2>1, TypedStep
  <2>3. Flags' /\ clients' = clients /\ owned' = owned /\ errors' = errors
    BY <1>1, <1>5, <2>1 DEF TypeEncrypted, Typed, Flags
  <2> DEFINE x == Len(texts')
  <2>4. x \in 0 .. Len(texts') /\ 0 \in 0 .. 2
    BY <1>1, <2>2 DEF Good
  <2>5. \A d \in Contexts \ {Best} : context[d].lastmessage = x => x = NULL
    BY <2>2
  <2> HIDE DEF x
  <2>6. Good(Kept(context, Best, x, 0), texts', errors)
    BY <1>1, <2>2, <2>4, <2>5, BestIsThere, KeptIsGood
  <2> QED  BY <1>1, <2>1, <2>2, <2>3, <2>6, NextIsGood DEF x
<1>6. CASE TypeFinished
  <2>1. /\ privateConverstationEnded' = (privateConverstationEnded \/ owned)
        /\ Typed(Unaltered(privateConverstationEnded')) /\ context' = context
    BY <1>6 DEF TypeFinished
  <2>2. /\ Unaltered(privateConverstationEnded') \in {"clear", "dropped"}
        /\ owned => Unaltered(privateConverstationEnded') # "clear"
    BY <2>1
  <2>3. Good(context, texts', errors) /\ Sent(texts', errors)
    BY <2>1, <2>2, TypedStep
  <2>4. Flags' /\ clients' = clients /\ owned' = owned /\ errors' = errors
    BY <1>1, <1>6, <2>1 DEF TypeFinished, Typed, Flags
  <2> QED  BY <1>1, <2>1, <2>3, <2>4, NextIsGood
<1>7. CASE TypeKeyless
  <2>1. Typed("lost") /\ context' = AtStart
    BY <1>7 DEF TypeKeyless
  <2>2. Len(texts') \in Nat /\ Sent(texts', errors)
    BY <2>1, TypedStep DEF Good
  <2>3. Flags' /\ clients' = clients /\ owned' = owned /\ errors' = errors
    BY <1>1, <1>7, <2>1 DEF TypeKeyless, Typed, Flags
  <2> QED  BY <1>1, <2>1, <2>2, <2>3, StartIsGood, NextIsGood
<1> QED  BY <1>2, <1>3, <1>4, <1>5, <1>6, <1>7 DEF Type

LEMMA CommandStep == ASSUME IInv, Ask \/ Finish \/ SetPolicy \/ Authenticate PROVE IInv'
<1>1. Flags /\ errors \in Nat /\ Good(context, texts, errors) /\ Sent(texts, errors)
  BY IInvIsGood
<1>2. CASE Ask \/ SetPolicy
  <2>1. /\ Flags' /\ clients' = clients /\ owned' = owned /\ errors' = errors
        /\ context' = context /\ texts' = texts
    BY <1>1, <1>2 DEF Ask, SetPolicy, OfferSent, Flags
  <2> QED  BY <1>1, <2>1, NextIsGood
<1>3. CASE Authenticate
  <2>1. trusted' \subseteq Contexts
    BY <1>1, <1>3, BestIsThere DEF Authenticate, Flags
  <2>2. /\ Flags' /\ clients' = clients /\ owned' = owned /\ errors' = errors
        /\ context' = context /\ texts' = texts
    BY <1>1, <1>3, <2>1 DEF Authenticate, Flags
  <2> QED  BY <1>1, <2>2, NextIsGood
<1>4. CASE Finish
  <2>1. /\ Flags' /\ clients' = clients /\ owned' = owned /\ errors' = errors
        /\ context' = Forced(context, Best, "PLAINTEXT") /\ texts' = texts
    BY <1>1, <1>4 DEF Finish, Flags
  <2>2. Good(Forced(context, Best, "PLAINTEXT"), texts, errors)
    BY <1>1, BestIsThere, ForcedIsGood
  <2> QED  BY <1>1, <2>1, <2>2, NextIsGood
<1> QED  BY <1>2, <1>3, <1>4

LEMMA PollStep == ASSUME IInv, Poll PROVE IInv'
<1>1. Flags /\ errors \in Nat /\ Good(context, texts, errors) /\ Sent(texts, errors)
  BY IInvIsGood
<1>2. /\ Flags' /\ clients' = clients /\ owned' = owned /\ errors' = errors
      /\ context' = [context EXCEPT ![Master].authstate = "NONE"] /\ texts' = texts
  BY <1>1 DEF Poll, Flags
<1>3. Good([context EXCEPT ![Master].authstate = "NONE"], texts, errors)
  BY <1>1, Numbers, WaitingIsGood
<1> QED  BY <1>1, <1>2, <1>3, NextIsGood

\* What a message of client c makes of a list in which c's context is.
LEMMA MessageIsGood ==
  ASSUME Flags, errors \in Nat, NEW f, Good(f, texts, errors), Sent(texts, errors),
         NEW c \in clients, f[c].exists,
         \/ ReceiveCommit(f, c) \/ ReceiveKey(f, c) \/ ReceiveRevealSig(f, c)
         \/ ReceiveSignature(f, c) \/ ReceiveData(f, c) \/ ReceiveDisconnect(f, c)
         \/ Ignore(f)
  PROVE  Good(context', texts', errors) /\ Sent(texts', errors)
<1>1. c \in Contexts
  BY ClientsAreContexts
<1>2. CASE ReceiveCommit(f, c)
  BY <1>1, <1>2, WaitingIsGood DEF ReceiveCommit
<1>3. CASE ReceiveKey(f, c)
  <2> DEFINE g == TakenOver(f, c)
             a == IF g[c].authstate = "AWAITING_DHKEY" THEN "AWAITING_SIG" ELSE g[c].authstate
  <2>1. Good(g, texts, errors)
    BY <1>1, TakenOverIsGood
  <2>2. a \in {"NONE", "AWAITING_DHKEY", "AWAITING_REVEALSIG", "AWAITING_SIG"}
    BY <1>1, <2>1 DEF Good, Lists, ContextType
  <2>3. context' = [g EXCEPT ![c].authstate = a] /\ texts' = texts
    <3>1. g[c] \in ContextType(Len(texts)) /\ g \in Lists(Len(texts))
      BY <1>1, <2>1 DEF Good, Lists
    <3> QED  BY <1>1, <1>3, <3>1 DEF ReceiveKey, ContextType
  <2> HIDE DEF g, a
  <2>4. Good([g EXCEPT ![c].authstate = a], texts, errors)
    BY <1>1, <2>1, <2>2, WaitingIsGood
  <2> QED  BY <2>3, <2>4
<1>4. Good(Secured(f, c), texts, errors)
  BY SecuredIsGood
<1>5. CASE ReceiveRevealSig(f, c)
  <2>1. CASE context' = Secured(f, c) /\ UNCHANGED texts
    BY <1>4, <2>1
  <2>2. CASE /\ Resends(f, c)
             /\ context' = AfterData(Secured(f, c), c, f[c].lastmessage)
             /\ texts' = SentAgain(texts, f[c].lastmessage)
    BY <2>2, ResentIsGood
  <2> QED  BY <1>5, <2>1, <2>2 DEF ReceiveRevealSig, SentAgain
<1>6. CASE ReceiveSignature(f, c)
  BY <1>4, <1>6 DEF ReceiveSignature
<1>7. CASE ReceiveData(f, c)
  <2>1. AfterData(f, c, NULL) = Kept(f, c, NULL, 0)
    BY DEF AfterData, Kept
  <2>2. NULL \in 0 .. Len(texts) /\ 0 \in 0 .. 2
    BY DEF Good, NULL
  <2>3. Good(Kept(f, c, NULL, 0), texts, errors)
    BY <1>1, <2>2, KeptIsGood
  <2> QED  BY <1>7, <2>1, <2>3 DEF ReceiveData
<1>8. CASE ReceiveDisconnect(f, c)
  <2>1. Good(Forced(f, c, "FINISHED"), texts, errors)
    BY <1>1, ForcedIsGood
  <2> QED  BY <1>8, <2>1 DEF ReceiveDisconnect
<1>9. CASE Ignore(f)
  BY <1>9 DEF Ignore
<1> QED  BY <1>2, <1>3, <1>5, <1>6, <1>7, <1>8, <1>9

LEMMA ReceiveStep == ASSUME IInv, NEW c \in clients, Receive(c) PROVE IInv'
<1>1. Flags /\ errors \in Nat /\ Good(context, texts, errors) /\ Sent(texts, errors)
  BY IInvIsGood
<1>2. c \in Contexts
  BY <1>1, ClientsAreContexts
<1>3. /\ Flags' /\ clients' = clients /\ owned' = owned /\ errors' = errors
  BY <1>1 DEF Receive, Replied, Flags
<1> DEFINE f == IF context[c].exists THEN context ELSE Adopted(context, c)
<1>4. Good(f, texts, errors) /\ f[c].exists
  <2>1. CASE context[c].exists
    BY <1>1, <2>1
  <2>2. CASE ~context[c].exists
    BY <1>1, <2>2, AdoptedIsGood
  <2> QED  BY <2>1, <2>2
<1>5. \/ Ignore(f)
      \/ \E tie \in BOOLEAN :
           \/ ReceiveCommit(Stamp(f, c, tie), c) \/ ReceiveKey(Stamp(f, c, tie), c)
           \/ ReceiveRevealSig(Stamp(f, c, tie), c) \/ ReceiveSignature(Stamp(f, c, tie), c)
           \/ ReceiveData(Stamp(f, c, tie), c) \/ ReceiveDisconnect(Stamp(f, c, tie), c)
           \/ Ignore(Stamp(f, c, tie))
  BY DEF Receive
<1> HIDE DEF f
<1>6. CASE Ignore(f)
  BY <1>1, <1>3, <1>4, <1>6, NextIsGood DEF Ignore
<1>7. CASE ~Ignore(f)
  <2>1. PICK tie \in BOOLEAN :
           \/ ReceiveCommit(Stamp(f, c, tie), c) \/ ReceiveKey(Stamp(f, c, tie), c)
           \/ ReceiveRevealSig(Stamp(f, c, tie), c) \/ ReceiveSignature(Stamp(f, c, tie), c)
           \/ ReceiveData(Stamp(f, c, tie), c) \/ ReceiveDisconnect(Stamp(f, c, tie), c)
           \/ Ignore(Stamp(f, c, tie))
    BY <1>5, <1>7
  <2> DEFINE g == Stamp(f, c, tie)
  <2>2. Good(g, texts, errors) /\ g[c].exists
    BY <1>2, <1>4, StampIsGood DEF Alike
  <2>3. \/ ReceiveCommit(g, c) \/ ReceiveKey(g, c) \/ ReceiveRevealSig(g, c)
        \/ ReceiveSignature(g, c) \/ ReceiveData(g, c) \/ ReceiveDisconnect(g, c)
        \/ Ignore(g)
    BY <2>1
  <2> HIDE DEF g
  <2>4. Good(context', texts', errors) /\ Sent(texts', errors)
    BY <1>1, <2>2, <2>3, MessageIsGood
  <2> QED  BY <1>1, <1>3, <2>4, NextIsGood
<1> QED  BY <1>6, <1>7

LEMMA UntaggedStep == ASSUME IInv, ReceiveUntagged PROVE IInv'
<1>1. Flags /\ errors \in Nat /\ Good(context, texts, errors) /\ Sent(texts, errors)
  BY IInvIsGood
<1>2. PICK tie \in BOOLEAN :
         \/ ReceiveQuery(Stamp(context, Master, tie)) \/ ReceiveTagged(Stamp(context, Master, tie))
         \/ ReceivePlain(Stamp(context, Master, tie)) \/ ReceiveError(Stamp(context, Master, tie))
  BY DEF ReceiveUntagged
<1> DEFINE f == Stamp(context, Master, tie)
<1>3. Good(f, texts, errors)
  BY <1>1, Numbers, StampIsGood
<1>4. ReceiveQuery(f) \/ ReceiveTagged(f) \/ ReceivePlain(f) \/ ReceiveError(f)
  BY <1>2
<1> HIDE DEF f
<1>5. clients' = clients /\ owned' = owned /\ texts' = texts
  BY DEF ReceiveUntagged
<1>6. Flags'
  BY <1>1, <1>4 DEF ReceiveUntagged, Flags, Replied,
                    ReceiveQuery, ReceiveTagged, ReceivePlain, ReceiveError
<1>7. Good(Starts(f), texts, errors)
  BY <1>3, Numbers, WaitingIsGood DEF Starts
<1>8. CASE ReceiveQuery(f) \/ ReceiveTagged(f) \/ ReceivePlain(f)
  <2>1. context' \in {f, Starts(f)} /\ errors' = errors
    BY <1>8 DEF ReceiveQuery, ReceiveTagged, ReceivePlain
  <2> QED  BY <1>1, <1>3, <1>5, <1>6, <1>7, <2>1, NextIsGood
<1>9. CASE ReceiveError(f)
  <2>1. /\ errors' = errors + 1
        /\ context' \in {f, [f EXCEPT ![Master].may_retransmit = 1]}
    BY <1>9 DEF ReceiveError
  <2>2. /\ Good(f, texts, errors + 1) /\ Sent(texts, errors + 1)
        /\ Good([f EXCEPT ![Master].may_retransmit = 1], texts, errors + 1)
    BY <1>1, <1>3, ErrorIsGood
  <2>3. errors + 1 \in Nat
    BY <1>1
  <2> QED  BY <1>5, <1>6, <2>1, <2>2, <2>3, NextIsGood
<1> QED  BY <1>4, <1>8, <1>9

LEMMA Initially == Init => IInv
<1> SUFFICES ASSUME Init
             PROVE  IInv
  OBVIOUS
<1>1. texts = <<>> /\ texts \in Seq(Text) /\ Len(texts) = 0 /\ DOMAIN texts = {} /\ errors = 0
  BY EmptySeq, LenProperties DEF Init
<1>2. Flags /\ errors \in Nat /\ Sent(texts, errors)
  <2>1. owned \in BOOLEAN /\ privateConverstationEnded \in BOOLEAN
    BY ChancesAreBoolean DEF Init
  <2>2. Flags
    BY <2>1 DEF Init, Flags
  <2>3. errors \in Nat /\ Sent(texts, errors)
    BY <1>1 DEF Sent
  <2> QED  BY <2>2, <2>3
<1>3. context = AtStart
  BY DEF Init
<1>4. Good(context, texts, errors)
  BY <1>1, <1>3, StartIsGood
<1> QED  BY <1>2, <1>4 DEF IInv, Good

LEMMA Inductive == IInv /\ [Next]_vars => IInv'
<1> SUFFICES ASSUME IInv, [Next]_vars
             PROVE  IInv'
  OBVIOUS
<1>1. CASE Type
  BY <1>1, TypeStep
<1>2. CASE Ask \/ Finish \/ SetPolicy \/ Authenticate
  BY <1>2, CommandStep
<1>3. CASE \E c \in clients : Receive(c)
  BY <1>3, ReceiveStep
<1>4. CASE ReceiveUntagged
  BY <1>4, UntaggedStep
<1>5. CASE Poll
  BY <1>5, PollStep
<1>6. CASE UNCHANGED vars
  BY <1>6 DEF vars, IInv, Flags, Lists, ContextType, Private, Marks, Sent
<1> QED  BY <1>1, <1>2, <1>3, <1>4, <1>5, <1>6 DEF Next

-----------------------------------------------------------------------------
(* How a context comes to be without keys.                                 *)

Bare(f, c) == f[c].msgstate = "ENCRYPTED" /\ ~f[c].active

\* Who is without keys in g was so in f, or f's master was private.
Inherited(f, g) ==
  \A c \in Contexts : Bare(g, c) => Bare(f, c) \/ f[Master].msgstate = "ENCRYPTED"
SameMaster(f, g) == f[Master].msgstate = g[Master].msgstate

LEMMA AlikeInherits ==
  ASSUME NEW f, NEW g, Alike(f, g)
  PROVE  Inherited(f, g) /\ SameMaster(f, g)
BY Numbers DEF Alike, Inherited, SameMaster, Bare

LEMMA InheritedThrough ==
  ASSUME NEW f, NEW g, NEW h, Inherited(f, g), SameMaster(f, g), Inherited(g, h)
  PROVE  Inherited(f, h)
BY DEF Inherited, SameMaster

LEMMA WaitingInherits ==
  ASSUME NEW n, NEW f \in Lists(n), NEW c \in Contexts, NEW a
  PROVE  /\ Inherited(f, [f EXCEPT ![c].authstate = a])
         /\ SameMaster(f, [f EXCEPT ![c].authstate = a])
<1> DEFINE g == [f EXCEPT ![c].authstate = a]
<1>1. \A d \in Contexts : g[d] = IF d = c THEN [f[c] EXCEPT !.authstate = a] ELSE f[d]
  BY DEF Lists
<1>2. \A d \in Contexts : f[d] \in ContextType(n)
  BY DEF Lists
<1> HIDE DEF g
<1>3. \A d \in Contexts : /\ g[d].msgstate = f[d].msgstate
                          /\ g[d].active = f[d].active
  BY <1>1, <1>2 DEF ContextType
<1>4. Inherited(f, g) /\ SameMaster(f, g)
  BY <1>3, Numbers DEF Inherited, SameMaster, Bare
<1> QED  BY <1>4 DEF g

LEMMA KeptInherits ==
  ASSUME NEW n, NEW f \in Lists(n), NEW c \in Contexts, NEW x, NEW m
  PROVE  Inherited(f, Kept(f, c, x, m))
<1> DEFINE g == Kept(f, c, x, m)
<1>1. \A d \in Contexts :
        g[d] = IF d = c THEN [f[c] EXCEPT !.lastmessage = x, !.may_retransmit = m]
                        ELSE f[d]
  BY DEF Kept, Lists
<1>2. \A d \in Contexts : f[d] \in ContextType(n)
  BY DEF Lists
<1> HIDE DEF g
<1>3. \A d \in Contexts : /\ g[d].msgstate = f[d].msgstate
                          /\ g[d].active = f[d].active
  BY <1>1, <1>2 DEF ContextType
<1>4. Inherited(f, g)
  BY <1>3, Numbers DEF Inherited, Bare
<1> QED  BY <1>4 DEF g

LEMMA SecuredInherits ==
  ASSUME NEW n, NEW f \in Lists(n), NEW c \in Contexts
  PROVE  Inherited(f, Secured(f, c)) /\ ~Bare(Secured(f, c), c)
<1> DEFINE g == Secured(f, c)
<1>1. \A d \in Contexts :
        g[d] = IF d = c THEN [f[c] EXCEPT !.msgstate = "ENCRYPTED", !.active = TRUE,
                                          !.authstate = "NONE"]
                        ELSE f[d]
  BY ZenonT(30) DEF Secured, Lists, ContextType
<1>2. f[c] \in ContextType(n)
  BY DEF Lists
<1> HIDE DEF g
<1>3. g[c].active
  BY <1>1, <1>2 DEF ContextType
<1>4. Inherited(f, g) /\ ~Bare(g, c)
  BY <1>1, <1>3 DEF Inherited, Bare
<1> QED  BY <1>4 DEF g

LEMMA ForcedInherits ==
  ASSUME NEW n, NEW f \in Lists(n), NEW c \in Contexts,
         NEW state \in {"PLAINTEXT", "FINISHED"}
  PROVE  Inherited(f, Forced(f, c, state))
<1> DEFINE g == Forced(f, c, state)
<1>1. \A d \in Contexts :
        g[d] = IF d = c THEN [f[c] EXCEPT !.msgstate = state,
                                          !.active = FALSE, !.authstate = "NONE",
                                          !.lastmessage = NULL, !.may_retransmit = 0]
                        ELSE f[d]
  BY DEF Forced, Lists
<1>2. f[c] \in ContextType(n)
  BY DEF Lists
<1> HIDE DEF g
<1>3. g[c].msgstate = state
  BY <1>1, <1>2 DEF ContextType
<1>4. Inherited(f, g)
  BY <1>1, <1>3 DEF Inherited, Bare
<1> QED  BY <1>4 DEF g

LEMMA TakenOverInherits ==
  ASSUME NEW n, NEW f \in Lists(n), NEW c \in Contexts
  PROVE  Inherited(f, TakenOver(f, c)) /\ SameMaster(f, TakenOver(f, c))
<1>1. CASE ~(c # Master /\ f[Master].authstate = "AWAITING_DHKEY")
  BY <1>1 DEF TakenOver, Inherited, SameMaster
<1>2. CASE c # Master /\ f[Master].authstate = "AWAITING_DHKEY"
  <2> DEFINE g == TakenOver(f, c)
             state == f[Master].msgstate
  <2>1. \A d \in Contexts :
          g[d] = IF d = c THEN [f[c] EXCEPT !.msgstate = state,
                                            !.authstate = "AWAITING_DHKEY"]
                          ELSE f[d]
    BY <1>2 DEF TakenOver, Lists
  <2>2. f[c] \in ContextType(n)
    BY DEF Lists
  <2> HIDE DEF g
  <2>3. g[c].msgstate = state
    BY <2>1, <2>2 DEF ContextType
  <2>4. Inherited(f, g) /\ SameMaster(f, g)
    BY <1>2, <2>1, <2>3, Numbers DEF Inherited, SameMaster, Bare
  <2> QED  BY <2>4 DEF g
<1> QED  BY <1>1, <1>2

LEMMA AdoptedInherits ==
  ASSUME NEW n, NEW f \in Lists(n), NEW c \in Contexts, c # Master
  PROVE  Inherited(f, Adopted(f, c)) /\ SameMaster(f, Adopted(f, c))
<1> DEFINE g == Adopted(f, c)
           m == f[Master]
           r == f[c]
           moves == m.may_retransmit # 0
<1>1. /\ \A d \in Contexts \ {c, Master} : g[d] = f[d]
      /\ g[Master] = IF moves THEN [m EXCEPT !.lastmessage = NULL, !.may_retransmit = 0]
                      ELSE m
  BY Numbers DEF Adopted, Lists, ContextType
<1>2. g[c] = IF moves
             THEN [r EXCEPT !.exists = TRUE, !.msgstate = m.msgstate,
                            !.lastmessage = m.lastmessage,
                            !.may_retransmit = m.may_retransmit]
             ELSE [r EXCEPT !.exists = TRUE, !.msgstate = m.msgstate]
  BY Numbers DEF Adopted, Lists, ContextType
<1>3. r \in ContextType(n) /\ m \in ContextType(n)
  BY Numbers DEF Lists
<1> HIDE DEF g, m, r, moves
<1>4. g[c].msgstate = m.msgstate /\ g[Master].msgstate = m.msgstate
  BY <1>1, <1>2, <1>3 DEF ContextType
<1>5. g[Master].active = m.active
  BY <1>1, <1>3 DEF ContextType
<1>6. Inherited(f, g) /\ SameMaster(f, g)
  BY <1>1, <1>4, <1>5, Numbers DEF Inherited, SameMaster, Bare, m
<1> QED  BY <1>6 DEF g

\* A message of client c.
LEMMA MessageInherits ==
  ASSUME NEW n, NEW f \in Lists(n), NEW c \in Contexts,
         \/ ReceiveCommit(f, c) \/ ReceiveKey(f, c) \/ ReceiveRevealSig(f, c)
         \/ ReceiveSignature(f, c) \/ ReceiveData(f, c) \/ ReceiveDisconnect(f, c)
         \/ Ignore(f)
  PROVE  Inherited(f, context')
<1>1. CASE ReceiveCommit(f, c)
  BY <1>1, WaitingInherits DEF ReceiveCommit
<1>2. CASE ReceiveKey(f, c)
  <2> DEFINE g == TakenOver(f, c)
             a == IF g[c].authstate = "AWAITING_DHKEY" THEN "AWAITING_SIG" ELSE g[c].authstate
  <2>1. Inherited(f, g) /\ SameMaster(f, g)
    BY TakenOverInherits
  <2>2. \A d \in Contexts : context'[d].msgstate = g[d].msgstate
                          /\ context'[d].active = g[d].active
    <3>1. /\ DOMAIN g = Contexts
          /\ \A d \in Contexts : g[d] \in [DOMAIN g[d] -> {g[d][x] : x \in DOMAIN g[d]}]
          /\ \A d \in Contexts : {"exists", "msgstate", "authstate", "active"} \subseteq DOMAIN g[d]
      BY DEF TakenOver, Lists, ContextType
    <3> QED  BY <1>2, <3>1 DEF ReceiveKey
  <2>3. Inherited(g, context')
    BY <2>2 DEF Inherited, Bare
  <2> HIDE DEF g
  <2> QED  BY <2>1, <2>3, InheritedThrough
<1>3. Inherited(f, Secured(f, c)) /\ ~Bare(Secured(f, c), c)
  BY SecuredInherits
<1>4. CASE ReceiveRevealSig(f, c)
  <2>1. CASE context' = Secured(f, c)
    BY <1>3, <2>1
  <2>2. CASE context' = AfterData(Secured(f, c), c, f[c].lastmessage)
    <3> DEFINE g == Secured(f, c)
    <3>1. /\ DOMAIN g = Contexts
          /\ \A d \in Contexts : DOMAIN g[d] = DOMAIN f[d]
                               /\ {"msgstate", "active"} \subseteq DOMAIN f[d]
      BY DEF Secured, Lists, ContextType
    <3> HIDE DEF g
    <3>2. \A d \in Contexts : context'[d].msgstate = g[d].msgstate
                            /\ context'[d].active = g[d].active
      BY <2>2, <3>1 DEF AfterData, g
    <3>3. Inherited(f, g)
      BY <1>3 DEF g
    <3> QED  BY <3>2, <3>3 DEF Inherited, Bare
  <2> QED  BY <1>4, <2>1, <2>2 DEF ReceiveRevealSig
<1>5. CASE ReceiveSignature(f, c)
  BY <1>3, <1>5 DEF ReceiveSignature
<1>6. CASE ReceiveData(f, c)
  <2>1. AfterData(f, c, NULL) = Kept(f, c, NULL, 0)
    BY DEF AfterData, Kept
  <2>2. Inherited(f, Kept(f, c, NULL, 0)) /\ Inherited(f, f)
    BY KeptInherits DEF Inherited
  <2> QED  BY <1>6, <2>1, <2>2 DEF ReceiveData
<1>7. CASE ReceiveDisconnect(f, c)
  BY <1>7, ForcedInherits DEF ReceiveDisconnect
<1>8. CASE Ignore(f)
  BY <1>8 DEF Ignore, Inherited
<1> QED  BY <1>1, <1>2, <1>4, <1>5, <1>6, <1>7, <1>8

LEMMA ReceiveInherits ==
  ASSUME IInv, NEW c \in clients, Receive(c)
  PROVE  Inherited(context, context')
<1> DEFINE n == Len(texts)
           f == IF context[c].exists THEN context ELSE Adopted(context, c)
<1>1. /\ c \in Contexts /\ context \in Lists(n) /\ Flags
      /\ Good(context, texts, errors)
  BY IInvIsGood, ClientsAreContexts DEF Good
<1>2. Good(f, texts, errors) /\ Inherited(context, f) /\ SameMaster(context, f)
  <2>1. CASE context[c].exists
    BY <1>1, <2>1 DEF Inherited, SameMaster
  <2>2. CASE ~context[c].exists
    <3>1. c # Master
      BY <1>1, <2>2 DEF Good, Private
    <3> QED  BY <1>1, <2>2, <3>1, AdoptedIsGood, AdoptedInherits
  <2> QED  BY <2>1, <2>2
<1>3. \/ Ignore(f)
      \/ \E tie \in BOOLEAN :
           \/ ReceiveCommit(Stamp(f, c, tie), c) \/ ReceiveKey(Stamp(f, c, tie), c)
           \/ ReceiveRevealSig(Stamp(f, c, tie), c) \/ ReceiveSignature(Stamp(f, c, tie), c)
           \/ ReceiveData(Stamp(f, c, tie), c) \/ ReceiveDisconnect(Stamp(f, c, tie), c)
           \/ Ignore(Stamp(f, c, tie))
  BY DEF Receive
<1> HIDE DEF f
<1>4. CASE Ignore(f)
  BY <1>2, <1>4 DEF Ignore
<1>5. CASE ~Ignore(f)
  <2>1. PICK tie \in BOOLEAN :
           \/ ReceiveCommit(Stamp(f, c, tie), c) \/ ReceiveKey(Stamp(f, c, tie), c)
           \/ ReceiveRevealSig(Stamp(f, c, tie), c) \/ ReceiveSignature(Stamp(f, c, tie), c)
           \/ ReceiveData(Stamp(f, c, tie), c) \/ ReceiveDisconnect(Stamp(f, c, tie), c)
           \/ Ignore(Stamp(f, c, tie))
    BY <1>3, <1>5
  <2> DEFINE g == Stamp(f, c, tie)
  <2>2. Alike(f, g) /\ g \in Lists(n)
    BY <1>1, <1>2, StampIsGood DEF Good
  <2>3. \/ ReceiveCommit(g, c) \/ ReceiveKey(g, c) \/ ReceiveRevealSig(g, c)
        \/ ReceiveSignature(g, c) \/ ReceiveData(g, c) \/ ReceiveDisconnect(g, c)
        \/ Ignore(g)
    BY <2>1
  <2> HIDE DEF g, n
  <2>4. Inherited(g, context') /\ Inherited(f, g) /\ SameMaster(f, g)
    BY <1>1, <2>2, <2>3, MessageInherits, AlikeInherits
  <2>5. Inherited(f, context')
    BY <2>4, InheritedThrough
  <2> QED  BY <1>2, <2>5, InheritedThrough
<1> QED  BY <1>4, <1>5

LEMMA UntaggedInherits ==
  ASSUME IInv, ReceiveUntagged
  PROVE  Inherited(context, context')
<1> DEFINE n == Len(texts)
<1>1. Good(context, texts, errors)
  BY IInvIsGood
<1>2. PICK tie \in BOOLEAN :
         \/ ReceiveQuery(Stamp(context, Master, tie)) \/ ReceiveTagged(Stamp(context, Master, tie))
         \/ ReceivePlain(Stamp(context, Master, tie)) \/ ReceiveError(Stamp(context, Master, tie))
  BY DEF ReceiveUntagged
<1> DEFINE f == Stamp(context, Master, tie)
           g == [f EXCEPT ![Master].may_retransmit = 1]
<1>3. Alike(context, f) /\ f \in Lists(n)
  BY <1>1, Numbers, StampIsGood DEF Good
<1>4. context' \in {f, Starts(f), g}
  BY <1>2 DEF ReceiveQuery, ReceiveTagged, ReceivePlain, ReceiveError
<1> HIDE DEF f, n
<1>5. Inherited(f, f) /\ Inherited(f, Starts(f))
  BY <1>3, Numbers, WaitingInherits DEF Starts, Inherited
<1>6. \A d \in Contexts : g[d].msgstate = f[d].msgstate /\ g[d].active = f[d].active
  BY <1>3, Numbers DEF Lists, ContextType
<1>7. Inherited(f, g)
  BY <1>6 DEF Inherited, Bare
<1>8. Inherited(f, context') /\ Inherited(context, f) /\ SameMaster(context, f)
  BY <1>3, <1>4, <1>5, <1>7, AlikeInherits
<1> QED  BY <1>8, InheritedThrough

LEMMA StepInherits == IInv /\ [Next]_vars => Inherited(context, context')
<1> SUFFICES ASSUME IInv, [Next]_vars
             PROVE  Inherited(context, context')
  OBVIOUS
<1> DEFINE n == Len(texts)
<1>1. context \in Lists(n) /\ Best \in Contexts /\ Inherited(context, context)
  BY BestIsThere DEF IInv, Inherited
<1> HIDE DEF n
<1>2. CASE TypePlain \/ TypeTagged \/ TypeFinished
  BY <1>1, <1>2 DEF TypePlain, TypeTagged, TypeFinished
<1>3. CASE TypeRequired
  <2>1. context' = Kept(context, Best, Len(texts'), 2)
    BY <1>3 DEF TypeRequired, Kept
  <2> QED  BY <1>1, <2>1, KeptInherits
<1>4. CASE TypeEncrypted
  <2>1. context' = Kept(context, Best, Len(texts'), 0)
    BY <1>4 DEF TypeEncrypted, AfterData, Kept
  <2> QED  BY <1>1, <2>1, KeptInherits
<1>5. CASE TypeKeyless
  <2>1. \A c \in Contexts : AtStart[c].msgstate = "PLAINTEXT"
    BY DEF AtStart, NewContext
  <2> QED  BY <1>5, <2>1 DEF TypeKeyless, Inherited, Bare
<1>6. CASE Ask \/ SetPolicy \/ Authenticate
  BY <1>1, <1>6 DEF Ask, SetPolicy, Authenticate
<1>7. CASE Finish
  BY <1>1, <1>7, ForcedInherits DEF Finish
<1>8. CASE \E c \in clients : Receive(c)
  BY <1>8, ReceiveInherits
<1>9. CASE ReceiveUntagged
  BY <1>9, UntaggedInherits
<1>10. CASE Poll
  BY <1>1, <1>10, Numbers, WaitingInherits DEF Poll
<1>11. CASE UNCHANGED vars
  BY <1>1, <1>11 DEF vars
<1> QED  BY <1>2, <1>3, <1>4, <1>5, <1>6, <1>7, <1>8, <1>9, <1>10, <1>11 DEF Next, Type

-----------------------------------------------------------------------------
(* The theorems.                                                           *)

\* The invariant: types, who may be private, what a mark may still send.
THEOREM Invariance == Spec => []IInv
BY Initially, Inductive, PTL DEF Spec

\* Contexts, marks and texts keep their types, whatever messages arrive in whatever
\* order; a mark to send a text again that typing left comes with the text.
THEOREM TypesOK == Spec => []TypeOK
<1>1. IInv => TypeOK
  BY DEF IInv, TypeOK, Flags, Lists, ContextType, Marks, Sent, Text
<1> QED  BY <1>1, Invariance, PTL

\* With any number of clients, old and new, a context is left ENCRYPTED without keys
\* only as one of a client that takes the state of a master with keys; the master
\* itself never is.
THEOREM KeysAreNotLost == Spec => KeylessIsInherited
<1>1. ASSUME IInv, [Next]_vars
      PROVE  [\A c \in Keyless' \ Keyless :
                /\ c # Master /\ context[Master].msgstate = "ENCRYPTED"
                /\ Master \notin Keyless]_vars
  <2> SUFFICES ASSUME NEW c \in Keyless' \ Keyless
               PROVE  /\ c # Master /\ context[Master].msgstate = "ENCRYPTED"
                      /\ Master \notin Keyless
    OBVIOUS
  <2>1. c \in Contexts /\ Bare(context', c) /\ ~Bare(context, c)
    BY DEF Keyless, Bare
  <2>2. context[Master].msgstate = "ENCRYPTED"
    BY <1>1, <2>1, StepInherits DEF Inherited
  <2>3. Master \notin Keyless
    BY <1>1, <2>2 DEF IInv, Private, Keyless
  <2>4. c # Master
    BY <1>1, <2>1, Inductive DEF IInv, Private, Bare
  <2> QED  BY <2>2, <2>3, <2>4
<1> QED  BY <1>1, Invariance, PTL DEF Spec, KeylessIsInherited

\* A text that requires encryption is not let out in the clear by a correspondent that
\* has its WtwOtrContext.
THEOREM RequiredStaysHeld == Spec => []RequiredNeverInClear
<1>1. IInv => RequiredNeverInClear
  BY DEF IInv, Sent, RequiredNeverInClear
<1> QED  BY <1>1, Invariance, PTL

\* A text goes out once, and once more for each OTR error message at most.
THEOREM ErrorsBoundCopies == Spec => []SentOncePerError
<1>1. IInv => SentOncePerError
  BY DEF IInv, Sent, SentOncePerError
<1> QED  BY <1>1, Invariance, PTL

\* If anyone is private, a typed text goes to one that is private or authenticated,
\* however many clients there are.
THEOREM WalkFindsPrivate == Spec => []PrivateIsBest
<1>1. IInv => PrivateIsBest
  BY BestIsPrivate DEF IInv
<1> QED  BY <1>1, Invariance, PTL
=============================================================================
