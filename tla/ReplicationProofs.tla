-------------------------- MODULE ReplicationProofs -------------------------
(***************************************************************************)
(* Proofs about the accounts as the clients see them, for any number of    *)
(* users and watchers and whatever is under way between them.  The         *)
(* argument: the server keeps an account's revisions apart (module         *)
(* AccountProofs), so a patch made for revision b turns every state of the *)
(* account from b on into the state it was made from; the patches of an    *)
(* account arrive in the order of their revisions, and the revision a      *)
(* client asks with is never above its own when the patch arrives.         *)
(***************************************************************************)
EXTENDS AccountProofs, ReplicationProperties, SequenceTheorems, FiniteSetTheorems

\* What a message from the server may be.
Values == UNION {[D -> Value] : D \in SUBSET SharedProperty}

UserPatch == [kind : {"Patch"}, user : Users, revision : Nat, value : Values]

Message == Notice \cup {EmptyPatch} \cup UserPatch

Snapshot == [revision : Nat \ {0}, value : [SharedProperty -> Value]]

Heard == {<<>>, <<"onLogin">>, <<"onLogin", "onLogout">>}

ReplicaTypes ==
    /\ joined \subseteq Watchers
    /\ down \in [Watchers -> Seq(Message)]
    /\ up \in [Watchers -> Seq(Request)]
    /\ DOMAIN players = Watchers
    /\ \A w \in Watchers :
          /\ DOMAIN players[w] \subseteq Users
          /\ \A u \in DOMAIN players[w] : players[w][u] \in Player
    /\ announced \in [Watchers -> [Users -> Heard]]
    /\ snapshots \in [Users -> SUBSET Snapshot]
    /\ \/ serving = NoRequest
       \/ serving \in [phase : Phases, watcher : Watchers, request : Request, revision : Nat]

\* Snapshots of one account have revisions of their own, and who logged out
\* stays logged out.
Consistent(S) ==
    \A s \in S :
        /\ s.value["LOGIN"] \in {0, 1} /\ s.value["NAME"] # NoValue
        /\ \A t \in S :
              /\ t.revision = s.revision => t = s
              /\ t.revision <= s.revision /\ t.value["LOGIN"] = 0 => s.value["LOGIN"] = 0

\* The snapshots of u: the account as it is now is the last of them, and all agree
\* with it on what is not newer.
Latest(u) == [revision |-> user_map[u].REVISION, value |-> Shared(user_map[u])]

AsCopy(u, s) == [user |-> u, revision |-> s.revision, value |-> s.value]

History(u) ==
    /\ u > max_user_id => snapshots[u] = {}
    /\ u \in DOMAIN user_map => Latest(u) \in snapshots[u]
    /\ \A s \in snapshots[u] : CopyAgrees(AsCopy(u, s))
    /\ Consistent(snapshots[u])

Gone(u) == snapshots[u] # {} /\ u \notin DOMAIN user_map

Serving(w, u) == serving # NoRequest /\ serving.watcher = w /\ serving.request.user = u

Answering(w, u) == serving.phase = "answering" /\ Serving(w, u)

PatchesOf(d, u) == {i \in DOMAIN d : d[i].kind = "Patch" /\ d[i].user = u}

\* m turns every snapshot from revision b on into the one it was made from.
Fits(m, b, S) ==
    \E s \in S :
        /\ s.revision = m.revision
        /\ \A t \in S : b <= t.revision /\ t.revision <= s.revision
                            => Patched(t.value, m) = s.value
        /\ b = 0 => Patched(NewPlayer.value, m) = s.value

Real(m, r, S) == \E b \in 0..r : Fits(m, b, S)

\* A patch collected after its account was erased: it holds nothing, and no
\* other patch of the account will follow it.
Hollow(w, u, i) ==
    /\ Gone(u) /\ ~Answering(w, u)
    /\ DOMAIN down[w][i].value = {}
    /\ \A j \in PatchesOf(down[w], u) : j <= i

Known(P, S) ==
    \/ P = NewPlayer
    \/ \E s \in S : s.revision = P.revision /\ View(s.value) = View(P.value)

PatchesInOrder(w, u) ==
    \A i \in PatchesOf(down[w], u) :
        /\ GetFromId(w, u).revision <= down[w][i].revision
        /\ \A j \in PatchesOf(down[w], u) : i <= j => down[w][i].revision <= down[w][j].revision
        /\ Real(down[w][i], GetFromId(w, u).revision, snapshots[u]) \/ Hollow(w, u, i)

NotAhead(w, u) ==
    u \in DOMAIN user_map =>
        /\ GetFromId(w, u).revision <= user_map[u].REVISION
        /\ \A i \in PatchesOf(down[w], u) : down[w][i].revision <= user_map[u].REVISION

AnswerSound(w, u) ==
    Answering(w, u) =>
        /\ snapshots[u] # {}
        /\ serving.request.revision < serving.revision
        /\ GetFromId(w, u).revision <= serving.revision
        /\ \A i \in PatchesOf(down[w], u) : down[w][i].revision <= serving.revision
        /\ u \in DOMAIN user_map => serving.revision = user_map[u].REVISION

RequestsOld(w, u) ==
    /\ \A i \in DOMAIN up[w] : up[w][i].user = u => up[w][i].revision <= GetFromId(w, u).revision
    /\ Serving(w, u) => serving.request.revision <= GetFromId(w, u).revision

PlayerKnown(w, u) ==
    \/ Known(GetFromId(w, u), snapshots[u])
    \/ Gone(u) /\ ~Answering(w, u) /\ PatchesOf(down[w], u) = {}

Told(w, u) ==
    LET P == GetFromId(w, u)
    IN  /\ LoggedIn(P.value) <=> announced[w][u] = <<"onLogin">>
        /\ LoggedIn(P.value) => P.value["NAME"] # NoValue
        /\ P.revision = 0 => announced[w][u] = <<>>

Line(w, u) ==
    /\ PatchesInOrder(w, u) /\ NotAhead(w, u) /\ AnswerSound(w, u)
    /\ RequestsOld(w, u) /\ PlayerKnown(w, u) /\ Told(w, u)

ReplicationInv ==
    /\ AccountInv
    /\ max_user_id <= MaxUsers
    /\ ReplicaTypes
    /\ \A u \in Users : History(u)
    /\ \A w \in Watchers, u \in Users : Line(w, u)

-----------------------------------------------------------------------------
(* Patches and snapshots.                                                  *)

LEMMA SharedIsProperty == SharedProperty \subseteq Property /\ {"LOGIN", "NAME", "MODEL_NAME"} \subseteq SharedProperty
BY DEF SharedProperty, Property

LEMMA ValuesOf ==
    ASSUME NEW v \in Values
    PROVE  DOMAIN v \subseteq SharedProperty /\ \A p \in DOMAIN v : v[p] \in Value
BY DEF Values

(* What GetUserRevisionPatch collects for the revision b turns each        *)
(* snapshot from b on into the account as it is.                           *)
LEMMA NewerFits ==
    ASSUME NEW a, Good(a), NEW b \in Nat, b < a.REVISION, NEW S \in SUBSET Snapshot,
           [revision |-> a.REVISION, value |-> Shared(a)] \in S,
           \A t \in S : \A p \in SharedProperty :
               a.revision[p] <= t.revision => a.value[p] = t.value[p],
           NEW m, m.revision = a.REVISION, m.value = [p \in Newer(a, b) |-> a.value[p]]
    PROVE  Fits(m, b, S) /\ m.value \in Values
<1> DEFINE s == [revision |-> a.REVISION, value |-> Shared(a)]
<1>1. /\ a \in AccountType /\ a.REVISION \in Nat
      /\ \A p \in Property : a.revision[p] \in Nat /\ a.value[p] \in Value
  BY DEF Good, AccountType
<1>2. Newer(a, b) \subseteq SharedProperty
  BY <1>1 DEF Newer, Good, SharedProperty
<1>3. m.value \in Values
  <2>1. m.value \in [Newer(a, b) -> Value]
    BY <1>1 DEF Newer
  <2> QED
    BY <2>1, <1>2 DEF Values
<1>4. ASSUME NEW t \in S, b <= t.revision PROVE Patched(t.value, m) = Shared(a)
  <2>1. t.revision \in Nat
    BY DEF Snapshot
  <2>2. ASSUME NEW p \in SharedProperty
        PROVE  (IF p \in DOMAIN m.value THEN m.value[p] ELSE t.value[p]) = a.value[p]
    <3>1. p \in Property /\ a.revision[p] \in Nat
      BY <1>1, SharedIsProperty
    <3>2. CASE p \in Newer(a, b)
      BY <3>2
    <3>3. CASE p \notin Newer(a, b)
      <4>1. a.revision[p] <= t.revision
        BY <3>1, <3>3, <2>1, <1>4 DEF Newer
      <4> QED
        BY <3>3, <4>1
    <3> QED
      BY <3>2, <3>3
  <2> QED
    BY <2>2 DEF Patched, Shared
<1>5. ASSUME b = 0 PROVE Patched(NewPlayer.value, m) = Shared(a)
  <2>2. ASSUME NEW p \in SharedProperty
        PROVE  (IF p \in DOMAIN m.value THEN m.value[p] ELSE NewPlayer.value[p]) = a.value[p]
    <3>1. p \in Property /\ a.revision[p] \in Nat
      BY <1>1, SharedIsProperty
    <3>2. CASE p \in Newer(a, b)
      BY <3>2
    <3>3. CASE p \notin Newer(a, b)
      <4>1. a.revision[p] = 0
        BY <3>1, <3>3, <1>5 DEF Newer
      <4> QED
        BY <3>3, <4>1 DEF NewPlayer, Good
    <3> QED
      BY <3>2, <3>3
  <2> QED
    BY <2>2 DEF Patched, Shared
<1>6. s \in S /\ s.revision = m.revision /\ s.value = Shared(a)
  OBVIOUS
<1> QED
  BY <1>3, <1>4, <1>5, <1>6 DEF Fits

(* A patch a client applies to a player it knows makes it the account as   *)
(* it was when the patch was made.                                         *)
LEMMA ApplyReal ==
    ASSUME NEW P \in Player, NEW S \in SUBSET Snapshot, Consistent(S), Known(P, S),
           NEW m, m.value \in Values, m.revision \in Nat, P.revision <= m.revision,
           Real(m, P.revision, S)
    PROVE  \E s \in S :
              /\ s.revision = m.revision
              /\ View(Applied(P.value, m)) = View(s.value)
              /\ s.revision = P.revision => View(s.value) = View(P.value)
              /\ P # NewPlayer /\ ~LoggedIn(P.value) => ~LoggedIn(s.value)
<1>1. PICK b \in 0..P.revision : Fits(m, b, S)
  BY DEF Real
<1>2. PICK s \in S :
        /\ s.revision = m.revision
        /\ \A t \in S : b <= t.revision /\ t.revision <= s.revision => Patched(t.value, m) = s.value
        /\ b = 0 => Patched(NewPlayer.value, m) = s.value
  BY <1>1 DEF Fits
<1> DEFINE old == P.value
           new == Patched(old, m)
<1>3. P.revision \in Nat /\ old \in [SharedProperty -> Value] /\ b \in Nat /\ b <= P.revision
      /\ s.value \in [SharedProperty -> Value] /\ s.revision \in Nat \ {0}
  BY DEF Player, Snapshot
<1>4. new \in [SharedProperty -> Value]
  BY <1>3, ValuesOf DEF Patched
<1>5. \A v : View(v)["LOGIN"] = v["LOGIN"] \/ v \notin [SharedProperty -> Value]
  BY SharedIsProperty DEF View
<1>6. CASE P = NewPlayer
  <2>1. b = 0
    BY <1>3, <1>6 DEF NewPlayer
  <2>2. new = s.value
    BY <2>1, <1>2, <1>6
  <2>3. ~LoggedIn(old)
    BY <1>6, SharedIsProperty, TextAssumption DEF LoggedIn, NewPlayer
  <2>4. Applied(old, m) = s.value
    BY <2>2, <2>3 DEF Applied, Logout
  <2>5. s.revision # P.revision
    BY <1>6, <1>3 DEF NewPlayer
  <2> QED
    BY <1>2, <1>6, <2>4, <2>5
<1>7. CASE P # NewPlayer
  <2>1. PICK t \in S : t.revision = P.revision /\ View(t.value) = View(old)
    BY <1>7 DEF Known
  <2>2. Patched(t.value, m) = s.value
    BY <1>2, <1>3, <2>1
  <2>3. t.value \in [SharedProperty -> Value]
    BY DEF Snapshot
  <2>4. LoggedIn(t.value) <=> LoggedIn(old)
    BY <1>3, <1>5, <2>1, <2>3 DEF LoggedIn
  <2>5. s.revision = P.revision => View(s.value) = View(old)
    BY <2>1 DEF Consistent
  <2>6. ~LoggedIn(old) => s.value["LOGIN"] = 0 /\ ~LoggedIn(s.value)
    <3> SUFFICES ASSUME ~LoggedIn(old) PROVE s.value["LOGIN"] = 0
      BY DEF LoggedIn
    <3>1. t.value["LOGIN"] = 0
      BY <2>4 DEF Consistent, LoggedIn
    <3> QED
      BY <3>1, <1>2, <2>1 DEF Consistent
  <2>7. View(Applied(old, m)) = View(s.value)
    <3>1. CASE LoggedIn(old)
      <4>1. t.value = old
        BY <3>1, <2>1, <2>4 DEF View
      <4>2. new = s.value
        BY <4>1, <2>2
      <4>3. Applied(old, m) = s.value \/ (~LoggedIn(s.value) /\ Applied(old, m) = [s.value EXCEPT !["MODEL_NAME"] = NoValue])
        BY <4>2 DEF Applied, Logout
      <4>4. CASE Applied(old, m) = s.value
        BY <4>4
      <4>5. CASE ~LoggedIn(s.value) /\ Applied(old, m) = [s.value EXCEPT !["MODEL_NAME"] = NoValue]
        BY <4>5, <1>3, SharedIsProperty DEF View, LoggedIn
      <4> QED
        BY <4>3, <4>4, <4>5
    <3>2. CASE ~LoggedIn(old)
      <4>1. Applied(old, m) = new
        BY <3>2 DEF Applied, Logout
      <4>2. \A p \in SharedProperty \ {"MODEL_NAME"} : t.value[p] = old[p]
        <5>1. ~LoggedIn(t.value)
          BY <3>2, <2>4
        <5>2. [t.value EXCEPT !["MODEL_NAME"] = NoValue] = [old EXCEPT !["MODEL_NAME"] = NoValue]
          BY <5>1, <3>2, <2>1 DEF View
        <5> QED
          BY <5>2, <1>3, <2>3
      <4>3. \A p \in SharedProperty \ {"MODEL_NAME"} : new[p] = s.value[p]
        <5>1. \A p \in SharedProperty : Patched(t.value, m)[p] = IF p \in DOMAIN m.value THEN m.value[p] ELSE t.value[p]
          BY DEF Patched
        <5>2. \A p \in SharedProperty : new[p] = IF p \in DOMAIN m.value THEN m.value[p] ELSE old[p]
          BY DEF Patched
        <5> QED
          BY <5>1, <5>2, <4>2, <2>2
      <4>4. ~LoggedIn(new) /\ ~LoggedIn(s.value)
        BY <2>6, <3>2, <4>3, SharedIsProperty DEF LoggedIn
      <4>5. View(new) = [new EXCEPT !["MODEL_NAME"] = NoValue] /\ View(s.value) = [s.value EXCEPT !["MODEL_NAME"] = NoValue]
        BY <4>4 DEF View
      <4> QED
        BY <4>1, <4>3, <4>5, <1>3, <1>4
    <3> QED
      BY <3>1, <3>2
  <2> QED
    BY <1>2, <2>5, <2>6, <2>7
<1> QED
  BY <1>6, <1>7

LEMMA AppliedTypes ==
    ASSUME NEW old \in [SharedProperty -> Value], NEW m, m.value \in Values
    PROVE  Applied(old, m) \in [SharedProperty -> Value]
<1>1. Patched(old, m) \in [SharedProperty -> Value]
  BY ValuesOf DEF Patched
<1>2. NoValue \in Value
  BY DEF Value
<1> QED
  BY <1>1, <1>2 DEF Applied

-----------------------------------------------------------------------------
(* What a step leaves of the line between the server and one watcher.      *)

LEMMA PlayerTyped ==
    ASSUME ReplicaTypes, NEW w \in Watchers, NEW u \in Users
    PROVE  GetFromId(w, u) \in Player
<1>1. NewPlayer \in Player
  BY DEF NewPlayer, Player, Value
<1> QED
  BY <1>1 DEF ReplicaTypes, GetFromId

LEMMA PatchTyped ==
    ASSUME NEW d \in Seq(Message), NEW u \in Users, NEW i \in PatchesOf(d, u)
    PROVE  /\ i \in 1..Len(d)
           /\ d[i].revision \in Nat /\ d[i].value \in Values
<1>1. i \in 1..Len(d) /\ d[i] \in Message
  BY DEF PatchesOf
<1>2. d[i] # EmptyPatch
  BY DEF PatchesOf, Users, EmptyPatch
<1>3. d[i] \notin Notice
  BY DEF PatchesOf, Notice
<1> QED
  BY <1>1, <1>2, <1>3 DEF Message, UserPatch

LEMMA RealSurvives ==
    ASSUME NEW S \in SUBSET Snapshot, NEW T \in SUBSET Snapshot, S \subseteq T,
           \A s \in T \ S, t \in S : t.revision < s.revision,
           NEW m, NEW q \in Nat, NEW r \in Nat, q <= r, Real(m, q, S)
    PROVE  Real(m, r, T)
<1>1. PICK b \in 0..q : Fits(m, b, S)
  BY DEF Real
<1>2. PICK s \in S :
        /\ s.revision = m.revision
        /\ \A t \in S : b <= t.revision /\ t.revision <= s.revision => Patched(t.value, m) = s.value
        /\ b = 0 => Patched(NewPlayer.value, m) = s.value
  BY <1>1 DEF Fits
<1>3. \A t \in T : t.revision <= s.revision => t \in S
  <2>1. \A t \in T : t.revision \in Nat
    BY DEF Snapshot
  <2> QED
    BY <2>1
<1>4. Fits(m, b, T)
  BY <1>2, <1>3 DEF Fits
<1>5. b \in 0..r
  OBVIOUS
<1> QED
  BY <1>4, <1>5 DEF Real

\* What a step may do to the account of u and to its snapshots.
Extends(u) ==
    /\ snapshots[u] \subseteq snapshots'[u]
    /\ \A s \in snapshots'[u] \ snapshots[u], t \in snapshots[u] : t.revision < s.revision
    /\ u \in DOMAIN user_map' =>
          \/ u \in DOMAIN user_map /\ user_map[u].REVISION <= user_map'[u].REVISION
          \/ snapshots[u] = {}

\* What it may do to an answer under way.
AnswerStays(w, u) ==
    Answering(w, u)' =>
        /\ Answering(w, u) /\ serving' = serving
        /\ u \in DOMAIN user_map' => u \in DOMAIN user_map /\ user_map'[u] = user_map[u]

LEMMA NothingYet ==
    ASSUME ReplicaTypes, NEW w \in Watchers, NEW u \in Users, Line(w, u), snapshots[u] = {}
    PROVE  GetFromId(w, u) = NewPlayer /\ PatchesOf(down[w], u) = {} /\ ~Answering(w, u)
<1>1. ~Gone(u)
  BY DEF Gone
<1>2. \A m, r : ~Real(m, r, snapshots[u])
  BY DEF Real, Fits
<1> QED
  BY <1>1, <1>2 DEF Line, PlayerKnown, Known, PatchesInOrder, Hollow, AnswerSound

LEMMA LineSurvives ==
    ASSUME ReplicaTypes, ReplicaTypes', GoodMap(user_map), GoodMap(user_map'),
           NEW w \in Watchers, NEW u \in Users, Line(w, u), Extends(u), AnswerStays(w, u),
           GetFromId(w, u)' = GetFromId(w, u), announced'[w][u] = announced[w][u],
           RequestsOld(w, u)',
           NEW k \in Nat,
           \A i \in PatchesOf(down'[w], u) :
              i + k \in PatchesOf(down[w], u) /\ down'[w][i] = down[w][i + k]
    PROVE  Line(w, u)'
<1> DEFINE P == GetFromId(w, u)
           d == down[w]
           e == down'[w]
<1>1. P \in Player /\ P.revision \in Nat
  BY PlayerTyped DEF Player
<1>2. \A i \in PatchesOf(d, u) : i \in Nat /\ d[i].revision \in Nat
  BY PatchTyped DEF ReplicaTypes
<1>3. \A i \in PatchesOf(e, u) : i \in Nat
  BY PatchTyped DEF ReplicaTypes
<1>4. snapshots[u] \in SUBSET Snapshot /\ snapshots'[u] \in SUBSET Snapshot
  BY DEF ReplicaTypes
<1>5. Gone(u) => Gone(u)'
  BY DEF Gone, Extends
<1>6. Answering(w, u)' => Answering(w, u) /\ serving' = serving
  BY DEF AnswerStays
<1>7. PatchesInOrder(w, u)'
  <2> SUFFICES ASSUME NEW i \in PatchesOf(e, u)
               PROVE  /\ P.revision <= e[i].revision
                      /\ \A j \in PatchesOf(e, u) : i <= j => e[i].revision <= e[j].revision
                      /\ Real(e[i], P.revision, snapshots'[u]) \/ Hollow(w, u, i)'
    BY DEF PatchesInOrder
  <2>1. i + k \in PatchesOf(d, u) /\ e[i] = d[i + k]
    OBVIOUS
  <2>2. P.revision <= e[i].revision
    BY <2>1 DEF Line, PatchesInOrder
  <2>3. ASSUME NEW j \in PatchesOf(e, u), i <= j PROVE e[i].revision <= e[j].revision
    <3>1. j + k \in PatchesOf(d, u) /\ e[j] = d[j + k] /\ i + k <= j + k
      BY <2>3, <1>3
    <3> QED
      BY <2>1, <3>1 DEF Line, PatchesInOrder
  <2>4. CASE Real(e[i], P.revision, snapshots[u])
    <3>1. Real(e[i], P.revision, snapshots'[u])
      BY <2>4, <1>1, <1>4, RealSurvives DEF Extends
    <3> QED
      BY <2>2, <2>3, <3>1
  <2>5. CASE Hollow(w, u, i + k)
    <3>1. \A j \in PatchesOf(e, u) : j + k <= i + k
      BY <2>5 DEF Hollow
    <3>2. \A j \in PatchesOf(e, u) : j <= i
      BY <3>1, <1>3
    <3>3. Hollow(w, u, i)'
      BY <2>1, <2>5, <3>2, <1>5, <1>6 DEF Hollow
    <3> QED
      BY <2>2, <2>3, <3>3
  <2>6. Real(d[i + k], P.revision, snapshots[u]) \/ Hollow(w, u, i + k)
    BY <2>1 DEF Line, PatchesInOrder
  <2> QED
    BY <2>1, <2>4, <2>5, <2>6
<1>8. NotAhead(w, u)'
  <2> SUFFICES ASSUME u \in DOMAIN user_map'
               PROVE  /\ P.revision <= user_map'[u].REVISION
                      /\ \A i \in PatchesOf(e, u) : e[i].revision <= user_map'[u].REVISION
    BY DEF NotAhead
  <2>1. user_map'[u].REVISION \in Nat
    BY DEF GoodMap, AccountType
  <2>2. CASE snapshots[u] = {}
    <3>1. P = NewPlayer /\ PatchesOf(d, u) = {}
      BY <2>2, NothingYet
    <3> QED
      BY <3>1, <2>1 DEF NewPlayer
  <2>3. CASE u \in DOMAIN user_map /\ user_map[u].REVISION <= user_map'[u].REVISION
    <3>1. user_map[u].REVISION \in Nat
      BY <2>3 DEF GoodMap, AccountType
    <3>2. /\ P.revision <= user_map[u].REVISION
          /\ \A i \in PatchesOf(d, u) : d[i].revision <= user_map[u].REVISION
      BY <2>3 DEF Line, NotAhead
    <3> QED
      BY <1>1, <1>2, <2>1, <2>3, <3>1, <3>2
  <2> QED
    BY <2>2, <2>3 DEF Extends
<1>9. AnswerSound(w, u)'
  <2> SUFFICES ASSUME Answering(w, u)'
               PROVE  /\ snapshots'[u] # {}
                      /\ serving'.request.revision < serving'.revision
                      /\ P.revision <= serving'.revision
                      /\ \A i \in PatchesOf(e, u) : e[i].revision <= serving'.revision
                      /\ u \in DOMAIN user_map' => serving'.revision = user_map'[u].REVISION
    BY DEF AnswerSound
  <2>1. Answering(w, u) /\ serving' = serving
        /\ (u \in DOMAIN user_map' => u \in DOMAIN user_map /\ user_map'[u] = user_map[u])
    BY DEF AnswerStays
  <2> QED
    BY <2>1 DEF Line, AnswerSound, Extends
<1>10. PlayerKnown(w, u)'
  <2>1. Known(P, snapshots[u]) => Known(P, snapshots'[u])
    BY DEF Known, Extends
  <2>2. PatchesOf(d, u) = {} => PatchesOf(e, u) = {}
    OBVIOUS
  <2> QED
    BY <2>1, <2>2, <1>5, <1>6 DEF Line, PlayerKnown
<1>11. Told(w, u)'
  BY DEF Line, Told
<1> QED
  BY <1>7, <1>8, <1>9, <1>10, <1>11 DEF Line

-----------------------------------------------------------------------------
(* What the handlers leave of an account.                                  *)

(* A handler that does not raise the revision leaves all that is shared.   *)
LEMMA SameRevision ==
    ASSUME NEW a, NEW b, Good(a), Good(b), Evolves(a, b), ~(b.REVISION > a.REVISION)
    PROVE  b.REVISION = a.REVISION /\ Shared(b) = Shared(a)
<1>1. a.REVISION \in Nat /\ b.REVISION \in Nat /\ \A p \in SharedProperty : b.revision[p] \in Nat
  BY SharedIsProperty DEF Good, AccountType
<1>2. b.REVISION = a.REVISION
  BY <1>1 DEF Evolves
<1>3. \A p \in SharedProperty : b.value[p] = a.value[p]
  BY <1>1, <1>2, SharedIsProperty DEF Evolves, Good
<1> QED
  BY <1>2, <1>3 DEF Shared

LEMMA LatestIsSnapshot ==
    ASSUME NEW a, Good(a), a.REVISION > 0
    PROVE  [revision |-> a.REVISION, value |-> Shared(a)] \in Snapshot
<1>1. a.REVISION \in Nat \ {0}
  BY DEF Good, AccountType
<1>2. Shared(a) \in [SharedProperty -> Value]
  BY SharedIsProperty DEF Good, AccountType, Shared
<1> QED
  BY <1>1, <1>2 DEF Snapshot

HistorySound ==
    /\ AccountInv /\ max_user_id <= MaxUsers /\ ReplicaTypes
    /\ \A u \in Users : History(u)

LEMMA AccountsAreUsers ==
    ASSUME AccountInv, max_user_id <= MaxUsers
    PROVE  /\ DOMAIN user_map \subseteq Users
           /\ \A u \in DOMAIN user_map : Good(user_map[u]) /\ user_map[u].REVISION \in Nat
<1>1. DOMAIN user_map \subseteq Users
  BY ReplicationAssumption DEF AccountInv, TypeOK, IdsGivenOut, Users, UserID
<1> QED
  BY <1>1 DEF AccountInv, GoodMap, Good, AccountType

(* The account of u evolves: an account that existed, whose session may    *)
(* have failed, or a new one, which is logged in and has a name.           *)
LEMMA HistoryGrows ==
    ASSUME HistorySound, NEW u \in Users, MapEvolves(user_map, user_map', u), Published,
           max_user_id' \in Nat, max_user_id <= max_user_id', u <= max_user_id',
           \/ /\ u \in DOMAIN user_map
              /\ \/ SameLogin(user_map, user_map', u)
                 \/ AccountOf(user_map', u).value["LOGIN"] = 0
           \/ /\ u = max_user_id + 1 /\ u \notin DOMAIN user_map
              /\ AccountOf(user_map', u).value["LOGIN"] = 1
              /\ AccountOf(user_map', u).value["NAME"] # NoValue
    PROVE  /\ snapshots' \in [Users -> SUBSET Snapshot]
           /\ \A x \in Users : History(x)' /\ Extends(x)
<1> USE DEF HistorySound
<1>0. /\ GoodMap(user_map) /\ GoodMap(user_map') /\ max_user_id \in Nat
      /\ u \in DOMAIN user_map' /\ u \in UserID /\ Users \subseteq UserID
  BY ReplicationAssumption DEF MapEvolves, AccountInv, TypeOK, Users, UserID
<1>1. \A x \in Users : snapshots[x] \in SUBSET Snapshot
  BY DEF ReplicaTypes
<1>2. ASSUME NEW x \in Users, NEW s \in snapshots[x], u \in DOMAIN user_map \/ x # u
      PROVE  CopyAgrees(AsCopy(x, s))'
  <2>1. AsCopy(x, s) \in CopyType /\ AsCopy(x, s).user = x
    BY <1>0, <1>1 DEF AsCopy, CopyType, Snapshot
  <2>2. CopyAgrees(AsCopy(x, s))
    BY DEF History
  <2> HIDE DEF AsCopy
  <2> QED
    BY <1>0, <1>2, <2>1, <2>2, CopySurvives
<1>3. ASSUME NEW x \in Users, x # u
      PROVE  snapshots'[x] = snapshots[x] /\ History(x)' /\ Extends(x)
  <2>1. x \in DOMAIN user_map' <=> x \in DOMAIN user_map
    BY <1>3 DEF MapEvolves
  <2>2. x \in DOMAIN user_map => user_map'[x] = user_map[x]
    BY <1>3 DEF MapEvolves
  <2>3. GetUserRevision(user_map', x) = GetUserRevision(user_map, x)
    BY <2>1, <2>2 DEF GetUserRevision, AccountOf
  <2>4. GetUserRevision(user_map, x) \in Nat
    BY <1>0, AccountOfGood DEF Good, AccountType, GetUserRevision
  <2>5. snapshots'[x] = snapshots[x]
    BY <2>3, <2>4 DEF Published, Changed
  <2>6. x > max_user_id' => x > max_user_id
    BY <1>0 DEF UserID
  <2>7. x \in DOMAIN user_map => Latest(x)' = Latest(x)
    BY <2>2 DEF Latest
  <2>8. History(x)'
    BY <1>2, <1>3, <2>1, <2>5, <2>6, <2>7 DEF History
  <2>9. Extends(x)
    BY <1>0, <2>1, <2>2, <2>5 DEF Extends, GoodMap, AccountType
  <2> QED
    BY <2>5, <2>8, <2>9
<1> DEFINE S == snapshots[u]
           b == user_map'[u]
           new == [revision |-> b.REVISION, value |-> Shared(b)]
<1>4. Good(b) /\ b.REVISION \in Nat /\ GetUserRevision(user_map', u) = b.REVISION
  BY <1>0 DEF GoodMap, Good, AccountType, GetUserRevision, AccountOf
<1>5. \A p \in SharedProperty : Shared(b)[p] = b.value[p]
  BY DEF Shared
<1>6. CASE u \in DOMAIN user_map /\ ~Changed(u)
  <2>1. S = snapshots'[u]
    BY <1>6 DEF Published
  <2>2. GetUserRevision(user_map, u) = user_map[u].REVISION /\ Good(user_map[u])
        /\ Evolves(user_map[u], b)
    BY <1>0, <1>6 DEF GetUserRevision, AccountOf, GoodMap, MapEvolves
  <2>3. Latest(u)' = Latest(u)
    BY <1>4, <1>6, <2>2, SameRevision DEF Changed, Latest
  <2>4. ~(u > max_user_id')
    BY <1>0 DEF UserID
  <2>5. History(u)'
    BY <1>2, <1>6, <2>1, <2>3, <2>4 DEF History
  <2>6. Extends(u)
    BY <1>6, <2>1, <2>2 DEF Extends, Evolves
  <2> QED
    BY <1>1, <1>3, <2>1, <2>5, <2>6 DEF Published
<1>7. CASE u \in DOMAIN user_map /\ Changed(u)
  <2> DEFINE a == user_map[u]
             old == [revision |-> a.REVISION, value |-> Shared(a)]
  <2>1. snapshots'[u] = S \cup {new}
    BY <1>0, <1>4, <1>7 DEF Published
  <2>2. Good(a) /\ a.REVISION \in Nat /\ a.REVISION < b.REVISION /\ Evolves(a, b)
    BY <1>0, <1>4, <1>7 DEF Changed, GetUserRevision, AccountOf, GoodMap, Good, AccountType, MapEvolves
  <2>3. old \in S
    BY <1>7 DEF History, Latest
  <2>4. \A s \in S : s.revision \in Nat /\ s.revision <= a.REVISION /\ s.revision < b.REVISION
    <3>1. \A s \in S : s.revision \in Nat
      BY <1>1 DEF Snapshot
    <3>2. \A s \in S : s.revision <= a.REVISION
      BY <1>7 DEF History, CopyAgrees, AsCopy
    <3> QED
      BY <3>1, <3>2, <1>4, <2>2
  <2>5. new \in Snapshot
    BY <1>4, <2>2, LatestIsSnapshot
  <2>6. /\ Shared(a)["LOGIN"] = a.value["LOGIN"] /\ Shared(a)["NAME"] = a.value["NAME"]
        /\ Shared(b)["LOGIN"] = b.value["LOGIN"] /\ Shared(b)["NAME"] = b.value["NAME"]
    BY SharedIsProperty DEF Shared
  <2>7. a.value["LOGIN"] \in {0, 1} /\ a.value["NAME"] # NoValue
    BY <2>3, <2>6 DEF History, Consistent
  <2>8. /\ b.value["LOGIN"] = a.value["LOGIN"] \/ b.value["LOGIN"] = 0
        /\ b.value["NAME"] # NoValue
    <3>1. AccountOf(user_map, u) = a /\ AccountOf(user_map', u) = b
      BY <1>0, <1>7 DEF AccountOf
    <3> QED
      BY <1>7, <2>2, <2>7, <3>1, SharedIsProperty DEF SameLogin, Evolves
  <2>9. \A s \in S : s.value["LOGIN"] = 0 => a.value["LOGIN"] = 0
    BY <2>3, <2>4, <2>6 DEF History, Consistent
  <2>10. Consistent(S \cup {new})
    <3>1. Consistent(S)
      BY DEF History
    <3>2. new.value["LOGIN"] \in {0, 1} /\ new.value["NAME"] # NoValue
      BY <2>6, <2>7, <2>8
    <3>3. \A s \in S : s.revision # new.revision /\ ~(new.revision <= s.revision)
      BY <1>4, <2>4
    <3>4. \A s \in S : s.value["LOGIN"] = 0 => new.value["LOGIN"] = 0
      BY <2>6, <2>8, <2>9
    <3> HIDE DEF new, S
    <3> QED
      BY <3>1, <3>2, <3>3, <3>4 DEF Consistent
  <2>11. ASSUME NEW s, s = new PROVE CopyAgrees(AsCopy(u, s))'
    BY <1>4, <1>5, <2>11 DEF CopyAgrees, AsCopy
  <2>12. Latest(u)' = new
    BY DEF Latest
  <2>13. ~(u > max_user_id')
    BY <1>0 DEF UserID
  <2>14. History(u)'
    BY <1>2, <1>7, <2>1, <2>10, <2>11, <2>12, <2>13 DEF History
  <2>15. Extends(u)
    BY <1>4, <1>7, <2>1, <2>2, <2>4 DEF Extends
  <2>16. \A x \in Users : snapshots'[x] \in SUBSET Snapshot
    BY <1>1, <1>3, <2>1, <2>5
  <2>17. DOMAIN snapshots' = Users /\ snapshots' = [x \in Users |-> snapshots'[x]]
    BY DEF Published
  <2> QED
    BY <1>3, <2>14, <2>15, <2>16, <2>17
<1>8. CASE u \notin DOMAIN user_map
  <2>1. S = {}
    BY <1>0, <1>8 DEF History, UserID
  <2>2. b.value["LOGIN"] = 1 /\ b.value["NAME"] # NoValue
    BY <1>0, <1>8 DEF AccountOf
  <2>3. b.REVISION > 0
    <3>1. b.revision["LOGIN"] # 0 /\ b.revision["LOGIN"] \in Nat /\ b.revision["LOGIN"] <= b.REVISION
      BY <1>4, <2>2, SharedIsProperty, TextAssumption DEF Good, AccountType
    <3> QED
      BY <3>1, <1>4
  <2>4. Changed(u)
    BY <1>4, <1>8, <2>3 DEF Changed, GetUserRevision, AccountOf, NoAccount
  <2>5. snapshots'[u] = {new}
    BY <1>0, <1>4, <2>1, <2>4 DEF Published
  <2>6. new \in Snapshot
    BY <1>4, <2>3, LatestIsSnapshot
  <2>7. new.value["LOGIN"] = 1 /\ new.value["NAME"] # NoValue
    BY <1>5, <2>2, SharedIsProperty
  <2>8. Consistent({new})
    <3> HIDE DEF new
    <3> QED
      BY <2>7 DEF Consistent
  <2>9. ASSUME NEW s, s = new PROVE CopyAgrees(AsCopy(u, s))'
    BY <1>4, <1>5, <2>9 DEF CopyAgrees, AsCopy
  <2>10. Latest(u)' = new
    BY DEF Latest
  <2>11. ~(u > max_user_id')
    BY <1>0 DEF UserID
  <2>12. History(u)'
    BY <2>5, <2>8, <2>9, <2>10, <2>11 DEF History
  <2>13. Extends(u)
    BY <2>1 DEF Extends
  <2>14. \A x \in Users : snapshots'[x] \in SUBSET Snapshot
    BY <1>1, <1>3, <2>5, <2>6
  <2>15. DOMAIN snapshots' = Users /\ snapshots' = [x \in Users |-> snapshots'[x]]
    BY DEF Published
  <2> QED
    BY <1>3, <2>12, <2>13, <2>14, <2>15
<1> QED
  BY <1>6, <1>7, <1>8

-----------------------------------------------------------------------------
(* The messages under way.                                                 *)

\* The patches of u in e are patches of d, in the order they have there.
Fewer(e, d, u) ==
    \E k \in Nat : \A i \in PatchesOf(e, u) : i + k \in PatchesOf(d, u) /\ e[i] = d[i + k]

LEMMA SameFewer ==
    ASSUME NEW d \in Seq(Message), NEW u
    PROVE  Fewer(d, d, u)
<1>1. \A i \in PatchesOf(d, u) : i \in Nat /\ i + 0 = i
  BY LenProperties DEF PatchesOf
<1> QED
  BY <1>1 DEF Fewer

LEMMA AppendFewer ==
    ASSUME NEW d \in Seq(Message), NEW m \in Message, NEW u, m.kind # "Patch" \/ m.user # u
    PROVE  Append(d, m) \in Seq(Message) /\ Fewer(Append(d, m), d, u)
<1> DEFINE e == Append(d, m)
<1>1. /\ e \in Seq(Message) /\ Len(e) = Len(d) + 1 /\ e[Len(d) + 1] = m
      /\ \A i \in 1..Len(d) : e[i] = d[i]
      /\ Len(d) \in Nat /\ DOMAIN d = 1..Len(d) /\ DOMAIN e = 1..Len(e)
  BY AppendProperties, LenProperties
<1> HIDE DEF e
<1>2. ASSUME NEW i \in PatchesOf(e, u) PROVE i + 0 \in PatchesOf(d, u) /\ e[i] = d[i + 0]
  <2>1. i \in 1..(Len(d) + 1) /\ i # Len(d) + 1
    BY <1>1 DEF PatchesOf
  <2>2. i \in 1..Len(d) /\ i + 0 = i
    BY <1>1, <2>1
  <2> QED
    BY <1>1, <2>2 DEF PatchesOf
<1> QED
  BY <1>1, <1>2 DEF Fewer, e

LEMMA ConcatFewer ==
    ASSUME NEW d \in Seq(Message), NEW c \in Seq(Notice), NEW u
    PROVE  d \o c \in Seq(Message) /\ Fewer(d \o c, d, u)
<1> DEFINE e == d \o c
<1>1. c \in Seq(Message)
  BY SeqMonotonic DEF Message
<1>2. /\ e \in Seq(Message) /\ Len(e) = Len(d) + Len(c)
      /\ \A i \in 1..(Len(d) + Len(c)) : e[i] = IF i <= Len(d) THEN d[i] ELSE c[i - Len(d)]
      /\ Len(d) \in Nat /\ Len(c) \in Nat /\ DOMAIN d = 1..Len(d) /\ DOMAIN e = 1..Len(e)
  BY <1>1, ConcatProperties, LenProperties
<1>3. \A j \in 1..Len(c) : c[j].kind = "Notify"
  <2> SUFFICES ASSUME NEW j \in 1..Len(c) PROVE c[j].kind = "Notify"
    OBVIOUS
  <2>1. c[j] \in Notice
    BY ElementOfSeq
  <2> QED
    BY <2>1 DEF Notice
<1> HIDE DEF e
<1>4. ASSUME NEW i \in PatchesOf(e, u) PROVE i + 0 \in PatchesOf(d, u) /\ e[i] = d[i + 0]
  <2>1. i \in 1..(Len(d) + Len(c))
    BY <1>2 DEF PatchesOf
  <2>2. i <= Len(d)
    <3> SUFFICES ASSUME ~(i <= Len(d)) PROVE FALSE
      OBVIOUS
    <3>1. e[i] = c[i - Len(d)] /\ i - Len(d) \in 1..Len(c)
      BY <1>2, <2>1
    <3>2. e[i].kind = "Notify"
      BY <1>3, <3>1
    <3> QED
      BY <3>2 DEF PatchesOf
  <2>3. i \in 1..Len(d) /\ i + 0 = i
    BY <1>2, <2>1, <2>2
  <2> QED
    BY <1>2, <2>2, <2>3 DEF PatchesOf
<1> QED
  BY <1>2, <1>4 DEF Fewer, e

LEMMA TailFewer ==
    ASSUME NEW d \in Seq(Message), d # <<>>, NEW u
    PROVE  /\ Tail(d) \in Seq(Message) /\ Head(d) = d[1] /\ 1 \in DOMAIN d
           /\ \A i \in PatchesOf(Tail(d), u) : i + 1 \in PatchesOf(d, u) /\ Tail(d)[i] = d[i + 1]
<1> DEFINE e == Tail(d)
<1>1. /\ e \in Seq(Message) /\ Len(e) = Len(d) - 1 /\ \A i \in 1..Len(e) : e[i] = d[i + 1]
      /\ Len(d) \in Nat \ {0} /\ DOMAIN d = 1..Len(d) /\ DOMAIN e = 1..Len(e)
      /\ Head(d) = d[1]
  BY HeadTailProperties, LenProperties, EmptySeq
<1> HIDE DEF e
<1>2. ASSUME NEW i \in PatchesOf(e, u) PROVE i + 1 \in PatchesOf(d, u) /\ e[i] = d[i + 1]
  <2>1. i \in 1..Len(e) /\ i + 1 \in 1..Len(d) /\ e[i] = d[i + 1]
    BY <1>1 DEF PatchesOf
  <2> QED
    BY <1>1, <2>1 DEF PatchesOf
<1>3. 1 \in DOMAIN d
  BY <1>1
<1>4. \A i \in PatchesOf(e, u) : i + 1 \in PatchesOf(d, u) /\ e[i] = d[i + 1]
  BY <1>2
<1> QED
  BY <1>1, <1>3, <1>4 DEF e

LEMMA AccountStep == ReplicationNext => [Next]_vars
BY DEF ReplicationNext, Next, PublicKey, InitializeData, UpdateProperty, FatalConnectionError,
       RemovalThread, Join, PatchRequested, ReceiveNotify, ReceivePatch, PatchStarted, PatchSent,
       RemoveReads, RemoveErases

(* A step that changes no player and adds no patch.                        *)
LEMMA QuietStep ==
    ASSUME ReplicationInv, AccountInv', max_user_id' <= MaxUsers, ReplicaTypes',
           \A u \in Users : History(u)' /\ Extends(u),
           players' = players, announced' = announced,
           \A w \in Watchers, u \in Users :
               RequestsOld(w, u)' /\ AnswerStays(w, u) /\ Fewer(down'[w], down[w], u)
    PROVE  ReplicationInv'
<1> SUFFICES ASSUME NEW w \in Watchers, NEW u \in Users PROVE Line(w, u)'
  BY DEF ReplicationInv
<1>1. PICK k \in Nat : \A i \in PatchesOf(down'[w], u) :
                          i + k \in PatchesOf(down[w], u) /\ down'[w][i] = down[w][i + k]
  BY DEF Fewer
<1>2. GetFromId(w, u)' = GetFromId(w, u)
  BY DEF GetFromId
<1>3. GoodMap(user_map) /\ GoodMap(user_map') /\ ReplicaTypes /\ Line(w, u) /\ Extends(u)
      /\ RequestsOld(w, u)' /\ AnswerStays(w, u)
  BY DEF ReplicationInv, AccountInv
<1> QED
  BY <1>1, <1>2, <1>3, LineSurvives

(* A step that leaves the accounts alone.                                  *)
LEMMA StillAccounts ==
    ASSUME ReplicationInv, UNCHANGED <<vars, snapshots>>
    PROVE  /\ AccountInv' /\ max_user_id' <= MaxUsers
           /\ \A u \in Users : History(u)' /\ Extends(u)
<1>1. AccountInv'
  BY NextAccount DEF ReplicationInv
<1>2. ASSUME NEW u \in Users PROVE History(u)'
  BY DEF ReplicationInv, History, vars, Latest, CopyAgrees
<1>3. ASSUME NEW u \in Users PROVE Extends(u)
  <2>1. u \in DOMAIN user_map => user_map[u].REVISION \in Nat
    BY DEF ReplicationInv, AccountInv, GoodMap, AccountType
  <2> QED
    BY <2>1 DEF Extends, vars
<1> QED
  BY <1>1, <1>2, <1>3 DEF ReplicationInv, vars

(* The handlers that change an account, whatever notices they send.        *)
LEMMA HandlerStep ==
    ASSUME ReplicationInv, AccountInv', max_user_id' <= MaxUsers,
           snapshots' \in [Users -> SUBSET Snapshot],
           \A u \in Users : History(u)' /\ Extends(u),
           Idle, UNCHANGED <<joined, up, serving, players, announced>>,
           down' = down \/ \E u \in Users : NotifyAll(u)
    PROVE  ReplicationInv'
<1>1. \A w \in Watchers : down[w] \in Seq(Message) /\ DOMAIN down = Watchers
  BY DEF ReplicationInv, ReplicaTypes
<1>2. ASSUME NEW v \in Users, NotifyAll(v)
      PROVE  /\ down' \in [Watchers -> Seq(Message)]
             /\ \A w \in Watchers, u \in Users : Fewer(down'[w], down[w], u)
  <2> DEFINE m == Notify(v, GetUserRevision(user_map', v))
  <2>1. GetUserRevision(user_map', v) \in Nat
    BY AccountOfGood DEF AccountInv, Good, AccountType, GetUserRevision
  <2>2. m \in Message /\ m.kind # "Patch"
    BY <2>1 DEF Notify, Message, Notice
  <2>3. down' = [w \in Watchers |-> Append(down[w], m)]
    BY <1>2 DEF NotifyAll
  <2> HIDE DEF m
  <2> QED
    BY <1>1, <2>2, <2>3, AppendFewer
<1>3. /\ down' \in [Watchers -> Seq(Message)]
      /\ \A w \in Watchers, u \in Users : Fewer(down'[w], down[w], u)
  BY <1>1, <1>2, SameFewer DEF ReplicationInv, ReplicaTypes
<1>4. ReplicaTypes'
  BY <1>3 DEF ReplicationInv, ReplicaTypes
<1>5. ASSUME NEW w \in Watchers, NEW u \in Users
      PROVE  RequestsOld(w, u)' /\ AnswerStays(w, u)
  <2>1. GetFromId(w, u)' = GetFromId(w, u)
    BY DEF GetFromId
  <2>2. RequestsOld(w, u)'
    BY <2>1 DEF ReplicationInv, Line, RequestsOld, Serving
  <2>3. ~Answering(w, u)'
    BY DEF Answering, Serving, Idle
  <2> QED
    BY <2>2, <2>3 DEF AnswerStays
<1> QED
  BY <1>3, <1>4, <1>5, QuietStep

-----------------------------------------------------------------------------
(* The handlers of the server that change accounts.                        *)

LEMMA InvHasHistory == ReplicationInv => HistorySound
BY DEF ReplicationInv, HistorySound

LEMMA PublicKeyStep ==
    ASSUME ReplicationInv, AccountInv',
           NEW k \in Keys, NEW ip \in Addresses, NEW port \in Addresses, PublicKey(k, ip, port)
    PROVE  ReplicationInv'
<1> DEFINE u == max_user_id + 1
<1>1. /\ u \in UserID /\ u \notin DOMAIN user_map /\ MapEvolves(user_map, user_map', u)
      /\ AccountOf(user_map', u).value["LOGIN"] = 1
      /\ AccountOf(user_map', u).value["NAME"] # NoValue
      /\ max_user_id' = u
  BY PublicKeyEvolves DEF PublicKey, ReplicationInv
<1>2. u <= MaxUsers /\ max_user_id \in Nat
  BY DEF PublicKey, ServerReceivePublicKey, NextUserId, ReplicationInv, AccountInv, TypeOK
<1>3. u \in Users /\ max_user_id' \in Nat /\ max_user_id <= max_user_id' /\ u <= max_user_id'
  BY <1>1, <1>2, ReplicationAssumption DEF Users
<1>4. Published /\ HistorySound
  BY InvHasHistory DEF PublicKey
<1>5. /\ snapshots' \in [Users -> SUBSET Snapshot]
      /\ \A x \in Users : History(x)' /\ Extends(x)
  <2> HIDE DEF u
  <2>1. u = max_user_id + 1
    BY DEF u
  <2> QED
    BY <1>1, <1>3, <1>4, <2>1, HistoryGrows
<1>6. Idle /\ down' = down /\ UNCHANGED <<joined, up, serving, players, announced>>
  BY DEF PublicKey, replicas
<1>7. max_user_id' <= MaxUsers
  BY <1>1, <1>2
<1> QED
  BY <1>5, <1>6, <1>7, HandlerStep

(* A handler of a session that exists.                                     *)
LEMMA SessionHandlerStep ==
    ASSUME ReplicationInv, AccountInv', NEW u \in DOMAIN user_map,
           MapEvolves(user_map, user_map', u),
           \/ SameLogin(user_map, user_map', u)
           \/ AccountOf(user_map', u).value["LOGIN"] = 0,
           max_user_id' = max_user_id, Published,
           Idle, UNCHANGED <<joined, up, serving, players, announced>>,
           down' = down \/ NotifyAll(u)
    PROVE  ReplicationInv'
<1>1. u \in Users /\ HistorySound
  BY AccountsAreUsers, InvHasHistory DEF ReplicationInv
<1>2. max_user_id \in Nat /\ max_user_id <= MaxUsers /\ u <= max_user_id
  BY DEF ReplicationInv, AccountInv, TypeOK, IdsGivenOut
<1>3. /\ snapshots' \in [Users -> SUBSET Snapshot]
      /\ \A x \in Users : History(x)' /\ Extends(x)
  BY <1>1, <1>2, HistoryGrows
<1> QED
  BY <1>1, <1>2, <1>3, HandlerStep

LEMMA InitializeDataStep ==
    ASSUME ReplicationInv, AccountInv', NEW u \in DOMAIN user_map, NEW data \in TextData,
           InitializeData(u, data)
    PROVE  ReplicationInv'
<1>1. u \in UserID /\ GoodMap(user_map)
  BY DEF ReplicationInv, AccountInv, GoodMap
<1>2. MapEvolves(user_map, user_map', u) /\ SameLogin(user_map, user_map', u)
  BY <1>1, LoadEvolves DEF InitializeData, ServerReceiveAccountInitializeData
<1> QED
  BY <1>2, SessionHandlerStep DEF InitializeData, ServerReceiveAccountInitializeData

LEMMA UpdatePropertyStep ==
    ASSUME ReplicationInv, AccountInv', NEW u \in DOMAIN user_map, UpdateProperty(u)
    PROVE  ReplicationInv'
<1>1. AccountInv /\ Update(u) /\ Published /\ Idle
      /\ UNCHANGED <<joined, up, serving, players, announced>>
      /\ (down' = down \/ NotifyAll(u))
  BY DEF ReplicationInv, UpdateProperty
<1>2. MapEvolves(user_map, user_map', u) /\ SameLogin(user_map, user_map', u)
  BY <1>1, UpdateEvolves
<1>3. max_user_id' = max_user_id
  BY <1>1 DEF Update, ServerUpdateAccountProperty
<1> QED
  BY <1>1, <1>2, <1>3, SessionHandlerStep

LEMMA FatalConnectionErrorStep ==
    ASSUME ReplicationInv, AccountInv', NEW u \in online, FatalConnectionError(u)
    PROVE  ReplicationInv'
<1>1. u \in DOMAIN user_map /\ u \in UserID /\ GoodMap(user_map)
  BY DEF ReplicationInv, AccountInv, OnlineAccountKept, GoodMap
<1>2. 0 \in Value \ {NoValue}
  BY TextAssumption DEF Value
<1>3. user_map' = Set(user_map, u, "LOGIN", 0) /\ max_user_id' = max_user_id
  BY DEF FatalConnectionError, UserFatalConnectionError, LogOut
<1>4. MapEvolves(user_map, user_map', u) /\ AccountOf(user_map', u).value["LOGIN"] = 0
  BY <1>1, <1>2, <1>3, SharedIsProperty, SetEvolves
<1> QED
  BY <1>1, <1>3, <1>4, SessionHandlerStep DEF FatalConnectionError

(* The removal threads, which run even in the middle of an answer.         *)
LEMMA RemovalThreadStep ==
    ASSUME ReplicationInv, AccountInv', NEW u \in removing \cup erasing, RemovalThread(u)
    PROVE  ReplicationInv'
<1>1. /\ DOMAIN user_map' \subseteq DOMAIN user_map
      /\ \A x \in DOMAIN user_map' : user_map'[x] = user_map[x]
      /\ max_user_id' = max_user_id
  BY DEF RemovalThread, RemoveReads, RemoveErases, Erase
<1>2. UNCHANGED <<joined, down, up, serving, players, announced, snapshots>>
  BY DEF RemovalThread, replicas
<1>3. ASSUME NEW x \in Users PROVE History(x)' /\ Extends(x)
  <2>1. x \in DOMAIN user_map' => Latest(x)' = Latest(x)
    BY <1>1 DEF Latest
  <2>2. \A s \in snapshots[x] : CopyAgrees(AsCopy(x, s))'
    BY <1>1 DEF ReplicationInv, History, CopyAgrees, AsCopy
  <2>3. History(x)'
    BY <1>1, <1>2, <2>1, <2>2 DEF ReplicationInv, History
  <2>4. x \in DOMAIN user_map => user_map[x].REVISION \in Nat
    BY DEF ReplicationInv, AccountInv, GoodMap, AccountType
  <2>5. Extends(x)
    BY <1>1, <1>2, <2>4 DEF Extends
  <2> QED
    BY <2>3, <2>5
<1>4. ReplicaTypes'
  BY <1>2 DEF ReplicationInv, ReplicaTypes
<1>5. ASSUME NEW w \in Watchers, NEW x \in Users
      PROVE  RequestsOld(w, x)' /\ AnswerStays(w, x) /\ Fewer(down'[w], down[w], x)
  <2>1. RequestsOld(w, x)'
    BY <1>2 DEF ReplicationInv, Line, RequestsOld, Serving, GetFromId
  <2>2. AnswerStays(w, x)
    BY <1>1, <1>2 DEF AnswerStays, Answering, Serving
  <2>3. Fewer(down'[w], down[w], x)
    BY <1>2, SameFewer DEF ReplicationInv, ReplicaTypes
  <2> QED
    BY <2>1, <2>2, <2>3
<1> QED
  BY <1>1, <1>2, <1>3, <1>4, <1>5, QuietStep DEF ReplicationInv

-----------------------------------------------------------------------------
(* Notices and requests.                                                   *)

LEMMA JoinStep ==
    ASSUME ReplicationInv, AccountInv', NEW w \in Watchers, Join(w)
    PROVE  ReplicationInv'
<1>1. PICK list \in InOrder(GetIDList(user_map)) :
         down' = [down EXCEPT ![w] = @ \o
              [i \in DOMAIN list |-> Notify(list[i], GetUserRevision(user_map, list[i]))]]
  BY DEF Join
<1> DEFINE c == [i \in DOMAIN list |-> Notify(list[i], GetUserRevision(user_map, list[i]))]
<1>2. UNCHANGED <<vars, snapshots>> /\ UNCHANGED <<up, serving, players, announced>>
      /\ joined' = joined \cup {w}
  BY DEF Join
<1>3. c \in Seq(Notice)
  <2>1. DOMAIN user_map \subseteq Users /\ IsFiniteSet(GetIDList(user_map))
    <3>1. DOMAIN user_map \subseteq Users
      BY AccountsAreUsers DEF ReplicationInv
    <3>2. IsFiniteSet(Users)
      BY ReplicationAssumption, FS_Interval DEF Users
    <3> QED
      BY <3>1, <3>2, FS_Subset DEF GetIDList
  <2>2. Cardinality(GetIDList(user_map)) \in Nat
    BY <2>1, FS_CardinalityType
  <2> DEFINE n == Cardinality(GetIDList(user_map))
  <2>3. list \in [1..n -> GetIDList(user_map)]
    BY DEF InOrder
  <2>4. \A i \in 1..n : list[i] \in Users
    BY <2>1, <2>3 DEF GetIDList
  <2>5. \A v : GetUserRevision(user_map, v) \in Nat
    BY AccountOfGood DEF ReplicationInv, AccountInv, Good, AccountType, GetUserRevision
  <2>6. \A i \in 1..n : Notify(list[i], GetUserRevision(user_map, list[i])) \in Notice
    BY <2>4, <2>5 DEF Notify, Notice
  <2>7. DOMAIN list = 1..n
    BY <2>3
  <2> HIDE DEF n
  <2>8. c \in [1..n -> Notice]
    BY <2>6, <2>7
  <2> QED
    BY <2>2, <2>8, SeqDef DEF n
<1> HIDE DEF c
<1>4. down \in [Watchers -> Seq(Message)] /\ down' = [down EXCEPT ![w] = @ \o c]
  BY <1>1 DEF ReplicationInv, ReplicaTypes, c
<1>5. down[w] \o c \in Seq(Message)
  BY <1>3, <1>4, ConcatFewer
<1>6. ReplicaTypes'
  BY <1>2, <1>4, <1>5 DEF ReplicationInv, ReplicaTypes
<1>7. ASSUME NEW x \in Watchers, NEW u \in Users
      PROVE  RequestsOld(x, u)' /\ AnswerStays(x, u) /\ Fewer(down'[x], down[x], u)
  <2>1. RequestsOld(x, u)'
    BY <1>2 DEF ReplicationInv, Line, RequestsOld, Serving, GetFromId
  <2>2. AnswerStays(x, u)
    BY <1>2 DEF AnswerStays, Answering, Serving, vars
  <2>3. Fewer(down'[x], down[x], u)
    <3>1. CASE x = w
      <4>1. Fewer(down[w] \o c, down[w], u)
        BY <1>3, <1>4, ConcatFewer
      <4>2. down'[w] = down[w] \o c
        BY <1>4
      <4> QED
        BY <3>1, <4>1, <4>2
    <3>2. CASE x # w
      <4>1. down'[x] = down[x] /\ down[x] \in Seq(Message)
        BY <3>2, <1>4
      <4> QED
        BY <4>1, SameFewer
    <3> QED
      BY <3>1, <3>2
  <2> QED
    BY <2>1, <2>2, <2>3
<1>8. AccountInv' /\ max_user_id' <= MaxUsers /\ \A u \in Users : History(u)' /\ Extends(u)
  BY <1>2, StillAccounts
<1> QED
  BY <1>2, <1>6, <1>7, <1>8, QuietStep

LEMMA PatchRequestedStep ==
    ASSUME ReplicationInv, AccountInv', NEW w \in Watchers, PatchRequested(w)
    PROVE  ReplicationInv'
<1> DEFINE q == up[w]
           request == Head(q)
<1>1. UNCHANGED <<vars, snapshots>> /\ UNCHANGED <<joined, down, players, announced>>
      /\ up' = [up EXCEPT ![w] = Tail(@)]
  BY DEF PatchRequested
<1>2. up \in [Watchers -> Seq(Request)] /\ q \in Seq(Request) /\ q # <<>>
  BY DEF ReplicationInv, ReplicaTypes, PatchRequested
<1>3. /\ Tail(q) \in Seq(Request) /\ request = q[1] /\ request \in Request /\ 1 \in DOMAIN q
      /\ \A i \in DOMAIN Tail(q) : i + 1 \in DOMAIN q /\ Tail(q)[i] = q[i + 1]
  <2>1. /\ Tail(q) \in Seq(Request) /\ Len(Tail(q)) = Len(q) - 1
        /\ \A i \in 1..Len(Tail(q)) : Tail(q)[i] = q[i + 1]
        /\ Len(q) \in Nat \ {0} /\ DOMAIN q = 1..Len(q) /\ DOMAIN Tail(q) = 1..Len(Tail(q))
        /\ request = q[1] /\ request \in Request
    BY <1>2, HeadTailProperties, LenProperties, EmptySeq
  <2> QED
    BY <2>1
<1>4. \/ serving' = NoRequest
      \/ serving' = [phase |-> "asked", watcher |-> w, request |-> request, revision |-> 0]
  BY DEF PatchRequested
<1> HIDE DEF request
<1>5. serving' = NoRequest
      \/ serving' \in [phase : Phases, watcher : Watchers, request : Request, revision : Nat]
  BY <1>3, <1>4 DEF Phases
<1>6. ReplicaTypes'
  BY <1>1, <1>2, <1>3, <1>5 DEF ReplicationInv, ReplicaTypes
<1>7. ASSUME NEW x \in Watchers, NEW u \in Users
      PROVE  RequestsOld(x, u)' /\ AnswerStays(x, u) /\ Fewer(down'[x], down[x], u)
  <2>0. GetFromId(x, u)' = GetFromId(x, u)
    BY <1>1 DEF GetFromId
  <2>1. \A i \in DOMAIN up[x] : up[x][i].user = u => up[x][i].revision <= GetFromId(x, u).revision
    BY DEF ReplicationInv, Line, RequestsOld
  <2>2. \A i \in DOMAIN up'[x] : up'[x][i].user = u => up'[x][i].revision <= GetFromId(x, u).revision
    <3>1. CASE x = w
      <4>1. up'[x] = Tail(q)
        BY <3>1, <1>1, <1>2
      <4> QED
        BY <3>1, <4>1, <1>3, <2>1
    <3>2. CASE x # w
      BY <3>2, <1>1, <1>2, <2>1
    <3> QED
      BY <3>1, <3>2
  <2>3. Serving(x, u)' => serving'.request.revision <= GetFromId(x, u).revision
    <3> SUFFICES ASSUME Serving(x, u)'
                 PROVE  serving'.request.revision <= GetFromId(x, u).revision
      OBVIOUS
    <3>1. serving' = [phase |-> "asked", watcher |-> w, request |-> request, revision |-> 0]
      BY <1>4 DEF Serving
    <3>2. x = w /\ request.user = u /\ serving'.request = request
      BY <3>1 DEF Serving
    <3> QED
      BY <3>2, <1>3, <2>1
  <2>4. ~Answering(x, u)'
    BY <1>4 DEF Answering, Serving, NoRequest
  <2>5. Fewer(down'[x], down[x], u)
    BY <1>1, SameFewer DEF ReplicationInv, ReplicaTypes
  <2> QED
    BY <2>0, <2>2, <2>3, <2>4, <2>5 DEF RequestsOld, AnswerStays
<1>8. AccountInv' /\ max_user_id' <= MaxUsers /\ \A u \in Users : History(u)' /\ Extends(u)
  BY <1>1, StillAccounts
<1> QED
  BY <1>1, <1>6, <1>7, <1>8, QuietStep

LEMMA ReceiveNotifyStep ==
    ASSUME ReplicationInv, AccountInv', NEW w \in Watchers, ReceiveNotify(w)
    PROVE  ReplicationInv'
<1> DEFINE d == down[w]
           m == Head(d)
           r == [user |-> m.user, revision |-> GetCurrentUserRevision(w, m.user)]
<1>1. UNCHANGED <<vars, snapshots>> /\ UNCHANGED <<joined, serving, players, announced>>
      /\ down' = [down EXCEPT ![w] = Tail(@)] /\ d # <<>> /\ m.kind = "Notify"
      /\ (up' = up \/ up' = [up EXCEPT ![w] = Append(@, r)])
  BY DEF ReceiveNotify
<1>2. down \in [Watchers -> Seq(Message)] /\ d \in Seq(Message) /\ up \in [Watchers -> Seq(Request)]
  BY DEF ReplicationInv, ReplicaTypes
<1>3. /\ Tail(d) \in Seq(Message) /\ m = d[1] /\ m \in Message
      /\ \A u : Fewer(Tail(d), d, u)
  BY <1>1, <1>2, TailFewer, HeadTailProperties DEF Fewer
<1>4. m.user \in Users /\ GetCurrentUserRevision(w, m.user) \in Nat /\ r \in Request
  <2>1. m \in Notice
    BY <1>1, <1>3 DEF Message, UserPatch, EmptyPatch
  <2>2. m.user \in Users
    BY <2>1 DEF Notice
  <2>3. GetCurrentUserRevision(w, m.user) \in Nat
    BY <2>2, PlayerTyped DEF ReplicationInv, GetCurrentUserRevision, Player
  <2> QED
    BY <2>2, <2>3 DEF Request
<1> HIDE DEF m, r
<1>5. ASSUME NEW x \in Watchers
      PROVE  /\ up'[x] \in Seq(Request)
             /\ \A i \in DOMAIN up'[x] :
                   \/ i \in DOMAIN up[x] /\ up'[x][i] = up[x][i]
                   \/ x = w /\ up'[x][i] = r
  <2>1. CASE up'[x] = up[x]
    BY <2>1, <1>2
  <2>2. CASE x = w /\ up'[x] = Append(up[w], r)
    <3>1. /\ Append(up[w], r) \in Seq(Request) /\ Len(Append(up[w], r)) = Len(up[w]) + 1
          /\ \A i \in 1..Len(up[w]) : Append(up[w], r)[i] = up[w][i]
          /\ Append(up[w], r)[Len(up[w]) + 1] = r
          /\ Len(up[w]) \in Nat /\ DOMAIN up[w] = 1..Len(up[w])
          /\ DOMAIN Append(up[w], r) = 1..Len(Append(up[w], r))
      BY <1>2, <1>4, AppendProperties, LenProperties
    <3>2. ASSUME NEW i \in DOMAIN up'[x]
          PROVE  \/ i \in DOMAIN up[x] /\ up'[x][i] = up[x][i]
                 \/ x = w /\ up'[x][i] = r
      <4>1. i \in 1..(Len(up[w]) + 1)
        BY <2>2, <3>1
      <4>2. i \in 1..Len(up[w]) \/ i = Len(up[w]) + 1
        BY <3>1, <4>1
      <4> QED
        BY <2>2, <3>1, <4>2
    <3> QED
      BY <2>2, <3>1, <3>2
  <2> QED
    BY <1>1, <1>2, <2>1, <2>2
<1>6. DOMAIN up' = Watchers /\ up' = [x \in Watchers |-> up'[x]]
  BY <1>1, <1>2
<1>7. up' \in [Watchers -> Seq(Request)]
  BY <1>5, <1>6
<1>8. ReplicaTypes'
  BY <1>1, <1>2, <1>3, <1>7 DEF ReplicationInv, ReplicaTypes
<1>9. ASSUME NEW x \in Watchers, NEW u \in Users
      PROVE  RequestsOld(x, u)' /\ AnswerStays(x, u) /\ Fewer(down'[x], down[x], u)
  <2>0. GetFromId(x, u)' = GetFromId(x, u) /\ GetFromId(x, u).revision \in Nat
    BY <1>1, PlayerTyped DEF GetFromId, ReplicationInv, Player
  <2>1. RequestsOld(x, u)
    BY DEF ReplicationInv, Line
  <2>2. ASSUME NEW i \in DOMAIN up'[x], up'[x][i].user = u
        PROVE  up'[x][i].revision <= GetFromId(x, u).revision
    <3>1. CASE i \in DOMAIN up[x] /\ up'[x][i] = up[x][i]
      BY <3>1, <2>1, <2>2 DEF RequestsOld
    <3>2. CASE x = w /\ up'[x][i] = r
      BY <3>2, <2>0, <2>2 DEF GetCurrentUserRevision, r
    <3> QED
      BY <3>1, <3>2, <1>5
  <2>3. RequestsOld(x, u)'
    BY <1>1, <2>0, <2>1, <2>2 DEF RequestsOld, Serving
  <2>4. AnswerStays(x, u)
    BY <1>1 DEF AnswerStays, Answering, Serving, vars
  <2>5. Fewer(down'[x], down[x], u)
    <3>1. CASE x = w
      BY <3>1, <1>1, <1>2, <1>3
    <3>2. CASE x # w
      <4>1. down'[x] = down[x] /\ down[x] \in Seq(Message)
        BY <3>2, <1>1, <1>2
      <4> QED
        BY <4>1, SameFewer
    <3> QED
      BY <3>1, <3>2
  <2> QED
    BY <2>3, <2>4, <2>5
<1>10. AccountInv' /\ max_user_id' <= MaxUsers /\ \A u \in Users : History(u)' /\ Extends(u)
  BY <1>1, StillAccounts
<1> QED
  BY <1>1, <1>8, <1>9, <1>10, QuietStep

-----------------------------------------------------------------------------
(* Patches.                                                                *)

LEMMA PatchStartedStep ==
    ASSUME ReplicationInv, AccountInv', PatchStarted,
           NEW w, w = serving.watcher, NEW u, u = serving.request.user
    PROVE  ReplicationInv'
<1> DEFINE r == GetUserRevision(user_map, u)
<1>1. UNCHANGED <<vars, snapshots>> /\ UNCHANGED <<joined, up, players, announced>>
      /\ serving.phase = "asked"
  BY DEF PatchStarted
<1>2. serving \in [phase : Phases, watcher : Watchers, request : Request, revision : Nat]
  BY <1>1 DEF ReplicationInv, ReplicaTypes, NoRequest
<1>3. w \in Watchers /\ u \in Users /\ serving.request \in Request /\ serving.request.revision \in Nat
  BY <1>2 DEF Request
<1>4. r \in Nat
  BY AccountOfGood DEF ReplicationInv, AccountInv, Good, AccountType, GetUserRevision
<1>5. AccountInv' /\ max_user_id' <= MaxUsers /\ \A x \in Users : History(x)' /\ Extends(x)
  BY <1>1, StillAccounts
<1>6. \A x \in Watchers, v \in Users : ~Answering(x, v)
  BY <1>1 DEF Answering
<1>7. \A x \in Watchers : down[x] \in Seq(Message)
  BY DEF ReplicationInv, ReplicaTypes
<1>8. CASE r > serving.request.revision
  <2>1. serving' = [serving EXCEPT !.phase = "answering", !.revision = r] /\ down' = down
    BY <1>8 DEF PatchStarted
  <2>2. /\ serving'.phase = "answering" /\ serving'.revision = r
        /\ serving'.watcher = w /\ serving'.request = serving.request
        /\ serving' \in [phase : Phases, watcher : Watchers, request : Request, revision : Nat]
    BY <1>2, <1>4, <2>1 DEF Phases
  <2>3. ReplicaTypes'
    BY <1>1, <2>1, <2>2 DEF ReplicationInv, ReplicaTypes
  <2>4. ASSUME NEW x \in Watchers, NEW v \in Users PROVE RequestsOld(x, v)'
    <3>1. Serving(x, v)' => Serving(x, v)
      BY <1>1, <2>2 DEF Serving, NoRequest
    <3> QED
      BY <1>1, <2>2, <3>1 DEF ReplicationInv, Line, RequestsOld, GetFromId
  <2>5. ASSUME NEW x \in Watchers, NEW v \in Users, x # w \/ v # u PROVE Line(x, v)'
    <3>1. ~Answering(x, v)'
      BY <2>2, <2>5 DEF Answering, Serving
    <3>2. AnswerStays(x, v)
      BY <3>1 DEF AnswerStays
    <3>3. GetFromId(x, v)' = GetFromId(x, v) /\ announced'[x][v] = announced[x][v]
      BY <1>1 DEF GetFromId
    <3>4. Fewer(down'[x], down[x], v)
      BY <1>7, <2>1, SameFewer
    <3>5. PICK k \in Nat : \A i \in PatchesOf(down'[x], v) :
                             i + k \in PatchesOf(down[x], v) /\ down'[x][i] = down[x][i + k]
      BY <3>4 DEF Fewer
    <3>6. GoodMap(user_map) /\ GoodMap(user_map') /\ ReplicaTypes /\ Line(x, v)
      BY <1>5 DEF ReplicationInv, AccountInv
    <3> QED
      BY <1>5, <2>3, <2>4, <3>2, <3>3, <3>5, <3>6, LineSurvives
  <2>6. Line(w, u)'
    <3>1. u \in DOMAIN user_map /\ r = user_map[u].REVISION
      BY <1>3, <1>8 DEF GetUserRevision, AccountOf, NoAccount
    <3>2. Latest(u) \in snapshots[u]
      BY <1>3, <3>1 DEF ReplicationInv, History
    <3>3. Line(w, u)
      BY <1>3 DEF ReplicationInv
    <3>4. ~Gone(u)
      BY <3>1 DEF Gone
    <3>5. GetFromId(w, u)' = GetFromId(w, u) /\ announced'[w] = announced[w] /\ down'[w] = down[w]
          /\ user_map' = user_map /\ snapshots' = snapshots
      BY <1>1, <2>1 DEF GetFromId, vars
    <3> HIDE DEF r
    <3>6. PatchesInOrder(w, u)'
      BY <3>3, <3>4, <3>5 DEF Line, PatchesInOrder, Hollow
    <3>7. NotAhead(w, u)'
      BY <3>3, <3>5 DEF Line, NotAhead
    <3>8. AnswerSound(w, u)'
      BY <1>8, <2>2, <3>1, <3>2, <3>3, <3>5 DEF Line, NotAhead, AnswerSound
    <3>9. PlayerKnown(w, u)'
      BY <3>3, <3>4, <3>5 DEF Line, PlayerKnown
    <3>10. Told(w, u)'
      BY <3>3, <3>5 DEF Line, Told
    <3> QED
      BY <1>3, <2>4, <3>6, <3>7, <3>8, <3>9, <3>10 DEF Line
  <2> QED
    BY <1>5, <2>3, <2>5, <2>6 DEF ReplicationInv
<1>9. CASE ~(r > serving.request.revision)
  <2>1. serving' = NoRequest /\ down' = [down EXCEPT ![w] = Append(@, EmptyPatch)]
    BY <1>9 DEF PatchStarted, Answer
  <2>2. EmptyPatch \in Message /\ \A v \in Users : EmptyPatch.user # v
    BY DEF Message, EmptyPatch, Users
  <2>3. Append(down[w], EmptyPatch) \in Seq(Message)
    BY <1>3, <1>7, <2>2, AppendProperties
  <2>4. ReplicaTypes'
    BY <1>1, <2>1, <2>3 DEF ReplicationInv, ReplicaTypes
  <2>5. ASSUME NEW x \in Watchers, NEW v \in Users
        PROVE  RequestsOld(x, v)' /\ AnswerStays(x, v) /\ Fewer(down'[x], down[x], v)
    <3>1. RequestsOld(x, v)'
      BY <1>1, <2>1 DEF ReplicationInv, Line, RequestsOld, Serving, GetFromId
    <3>2. AnswerStays(x, v)
      BY <2>1 DEF AnswerStays, Answering, Serving
    <3>3. Fewer(down'[x], down[x], v)
      <4>1. CASE x = w
        <5>1. down'[x] = Append(down[x], EmptyPatch)
          BY <4>1, <1>3, <2>1 DEF ReplicationInv, ReplicaTypes
        <5> QED
          BY <1>7, <2>2, <5>1, AppendFewer
      <4>2. CASE x # w
        <5>1. down'[x] = down[x]
          BY <4>2, <2>1 DEF ReplicationInv, ReplicaTypes
        <5> QED
          BY <1>7, <5>1, SameFewer
      <4> QED
        BY <4>1, <4>2
    <3> QED
      BY <3>1, <3>2, <3>3
  <2> QED
    BY <1>1, <1>5, <2>4, <2>5, QuietStep
<1> QED
  BY <1>8, <1>9

LEMMA PatchSentStep ==
    ASSUME ReplicationInv, AccountInv', PatchSent,
           NEW w, w = serving.watcher, NEW u, u = serving.request.user
    PROVE  ReplicationInv'
<1> DEFINE b == serving.request.revision
           a == AccountOf(user_map, u)
           m == [kind |-> "Patch", user |-> u, revision |-> serving.revision,
                 value |-> GetUserRevisionPatch(user_map, u, b).value]
           d == down[w]
           e == Append(d, m)
           P == GetFromId(w, u)
<1>1. UNCHANGED <<vars, snapshots>> /\ UNCHANGED <<joined, up, players, announced>>
      /\ serving.phase = "answering" /\ serving' = NoRequest
      /\ down' = [down EXCEPT ![w] = Append(@, m)]
  BY DEF PatchSent, Answer
<1>2. serving \in [phase : Phases, watcher : Watchers, request : Request, revision : Nat]
  BY <1>1 DEF ReplicationInv, ReplicaTypes, NoRequest
<1>3. w \in Watchers /\ u \in Users /\ b \in Nat /\ serving.revision \in Nat
  BY <1>2 DEF Request
<1>4. Line(w, u) /\ Answering(w, u) /\ ReplicaTypes /\ History(u)
  BY <1>1, <1>3 DEF ReplicationInv, Answering, Serving, NoRequest
<1>5. P \in Player /\ P.revision \in Nat
  BY <1>3, <1>4, PlayerTyped DEF Player
<1>6. /\ snapshots[u] # {} /\ b < serving.revision /\ P.revision <= serving.revision /\ b <= P.revision
      /\ \A i \in PatchesOf(d, u) : d[i].revision <= serving.revision
      /\ u \in DOMAIN user_map => serving.revision = user_map[u].REVISION
  BY <1>4 DEF Line, AnswerSound, RequestsOld, Answering
<1>7. m.value = [p \in (IF a.REVISION > b THEN Newer(a, b) ELSE {}) |-> a.value[p]]
  BY DEF GetUserRevisionPatch
<1>9. /\ m.value \in Values
      /\ \/ u \in DOMAIN user_map /\ Fits(m, b, snapshots[u])
         \/ u \notin DOMAIN user_map /\ DOMAIN m.value = {}
  <2>1. CASE u \in DOMAIN user_map
    <3>1. a = user_map[u] /\ Good(a) /\ b < a.REVISION /\ serving.revision = a.REVISION
      BY <2>1, <1>6 DEF AccountOf, ReplicationInv, AccountInv, GoodMap
    <3>2. a.REVISION > b
      BY <3>1, <1>3
    <3>3. m.value = [p \in Newer(a, b) |-> a.value[p]] /\ m.revision = a.REVISION
      BY <1>7, <3>1, <3>2
    <3>4. [revision |-> a.REVISION, value |-> Shared(a)] \in snapshots[u]
      BY <1>4, <2>1, <3>1 DEF History, Latest
    <3>5. \A t \in snapshots[u] : \A p \in SharedProperty :
             a.revision[p] <= t.revision => a.value[p] = t.value[p]
      BY <1>4, <2>1, <3>1 DEF History, CopyAgrees, AsCopy
    <3>6. snapshots[u] \in SUBSET Snapshot
      BY <1>3, <1>4 DEF ReplicaTypes
    <3> HIDE DEF a, m, b
    <3> QED
      BY <1>3, <2>1, <3>1, <3>3, <3>4, <3>5, <3>6, NewerFits
  <2>2. CASE u \notin DOMAIN user_map
    <3>1. a.REVISION = 0
      BY <2>2 DEF AccountOf, NoAccount
    <3>2. DOMAIN m.value = {} /\ m.value \in [{} -> Value]
      BY <1>3, <1>7, <3>1
    <3> QED
      BY <2>2, <3>2 DEF Values
  <2> QED
    BY <2>1, <2>2
<1>10. m \in UserPatch /\ m \in Message /\ m.kind = "Patch" /\ m.user = u /\ m.revision = serving.revision
  BY <1>3, <1>9 DEF UserPatch, Message
<1>11. d \in Seq(Message) /\ \A x \in Watchers : down[x] \in Seq(Message)
  BY <1>3, <1>4 DEF ReplicaTypes
<1> HIDE DEF m
<1>12. /\ e \in Seq(Message) /\ Len(e) = Len(d) + 1 /\ e[Len(d) + 1] = m
       /\ \A i \in 1..Len(d) : e[i] = d[i]
       /\ Len(d) \in Nat /\ DOMAIN d = 1..Len(d) /\ DOMAIN e = 1..Len(e)
  BY <1>10, <1>11, AppendProperties, LenProperties
<1>13. /\ DOMAIN down = Watchers /\ DOMAIN down' = Watchers /\ down'[w] = e
       /\ \A x \in Watchers : x # w => down'[x] = down[x]
  BY <1>1, <1>3, <1>4 DEF ReplicaTypes
<1>14. ReplicaTypes'
  BY <1>1, <1>3, <1>12 DEF ReplicationInv, ReplicaTypes
<1>15. AccountInv' /\ max_user_id' <= MaxUsers /\ \A x \in Users : History(x)' /\ Extends(x)
  BY <1>1, StillAccounts
<1>16. ASSUME NEW x \in Watchers, NEW v \in Users PROVE RequestsOld(x, v)' /\ ~Answering(x, v)'
  <2>1. ~Serving(x, v)' /\ ~Answering(x, v)'
    BY <1>1 DEF Serving, Answering
  <2> QED
    BY <1>1, <2>1 DEF ReplicationInv, Line, RequestsOld, GetFromId
<1>17. ASSUME NEW x \in Watchers, NEW v \in Users, x # w \/ v # u PROVE Line(x, v)'
  <2>1. Fewer(down'[x], down[x], v)
    <3>1. CASE x = w
      BY <3>1, <1>10, <1>11, <1>13, <1>17, AppendFewer
    <3>2. CASE x # w
      BY <3>2, <1>11, <1>13, SameFewer
    <3> QED
      BY <3>1, <3>2
  <2>2. PICK k \in Nat : \A i \in PatchesOf(down'[x], v) :
                           i + k \in PatchesOf(down[x], v) /\ down'[x][i] = down[x][i + k]
    BY <2>1 DEF Fewer
  <2>3. GetFromId(x, v)' = GetFromId(x, v) /\ announced'[x][v] = announced[x][v]
    BY <1>1 DEF GetFromId
  <2>4. GoodMap(user_map) /\ GoodMap(user_map') /\ Line(x, v) /\ AnswerStays(x, v)
    BY <1>15, <1>16 DEF ReplicationInv, AccountInv, AnswerStays
  <2> QED
    BY <1>4, <1>14, <1>15, <1>16, <2>2, <2>3, <2>4, LineSurvives
<1>18. Line(w, u)'
  <2>1. GetFromId(w, u)' = P /\ announced'[w] = announced[w] /\ down'[w] = e
        /\ user_map' = user_map /\ snapshots' = snapshots
    BY <1>1, <1>13 DEF GetFromId, vars
  <2>2. \A i : i \in PatchesOf(e, u) <=> i \in PatchesOf(d, u) \/ i = Len(d) + 1
    BY <1>10, <1>12 DEF PatchesOf
  <2>3. \A i \in PatchesOf(d, u) : i \in 1..Len(d) /\ e[i] = d[i] /\ d[i].revision \in Nat
    BY <1>3, <1>11, <1>12, PatchTyped
  <2> HIDE DEF b, a, d, e, P
  <2>4. PatchesInOrder(w, u)'
    <3> SUFFICES ASSUME NEW i \in PatchesOf(e, u)
                 PROVE  /\ P.revision <= e[i].revision
                        /\ \A j \in PatchesOf(e, u) : i <= j => e[i].revision <= e[j].revision
                        /\ Real(e[i], P.revision, snapshots[u]) \/ Hollow(w, u, i)'
      BY <2>1 DEF PatchesInOrder
    <3>1. CASE i \in PatchesOf(d, u)
      <4>1. /\ P.revision <= d[i].revision
            /\ \A j \in PatchesOf(d, u) : i <= j => d[i].revision <= d[j].revision
            /\ Real(d[i], P.revision, snapshots[u])
        BY <3>1, <1>4 DEF Line, PatchesInOrder, Hollow, d, P
      <4>2. d[i].revision <= m.revision
        BY <3>1, <1>6, <1>10
      <4> QED
        BY <3>1, <4>1, <4>2, <2>2, <2>3, <1>12
    <3>2. CASE i = Len(d) + 1
      <4>1. e[i] = m /\ \A j \in PatchesOf(e, u) : j <= i
        BY <3>2, <2>2, <2>3, <1>12
      <4>2. \A j \in PatchesOf(e, u) : i <= j => j = i
        BY <3>2, <2>2, <2>3, <1>12
      <4>3. CASE Fits(m, b, snapshots[u])
        <5>1. b \in 0..P.revision
          BY <1>3, <1>5, <1>6
        <5> QED
          BY <4>1, <4>2, <4>3, <5>1, <1>6, <1>10, <1>3 DEF Real
      <4>4. CASE u \notin DOMAIN user_map /\ DOMAIN m.value = {}
        <5>1. Gone(u)' /\ ~Answering(w, u)'
          BY <4>4, <1>3, <1>6, <1>16, <2>1 DEF Gone
        <5>2. Hollow(w, u, i)'
          BY <4>1, <4>4, <5>1, <2>1 DEF Hollow
        <5> QED
          BY <4>1, <4>2, <5>2, <1>3, <1>6, <1>10
      <4> QED
        BY <4>3, <4>4, <1>9
    <3> QED
      BY <3>1, <3>2, <2>2
  <2>5. NotAhead(w, u)'
    BY <1>4, <1>6, <1>10, <1>12, <2>1, <2>2, <2>3, <1>3 DEF Line, NotAhead, P, d
  <2>6. AnswerSound(w, u)'
    BY <1>3, <1>16 DEF AnswerSound
  <2>7. PlayerKnown(w, u)'
    BY <1>4, <2>1 DEF Line, PlayerKnown, P
  <2>8. Told(w, u)'
    BY <1>4, <2>1 DEF Line, Told, P
  <2> QED
    BY <1>3, <1>16, <2>4, <2>5, <2>6, <2>7, <2>8 DEF Line
<1> QED
  BY <1>14, <1>15, <1>17, <1>18 DEF ReplicationInv

LEMMA PairOf ==
    ASSUME NEW S, NEW a \in S, NEW b \in S
    PROVE  <<a>> \in Seq(S) /\ <<a, b>> \in Seq(S) /\ <<a>> \o <<b>> = <<a, b>>
<1>1. <<a>> \in Seq(S) /\ <<a, b>> \in Seq(S) /\ Len(<<a>>) = 1 /\ Len(<<a, b>>) = 2
  OBVIOUS
<1>2. /\ Append(<<a>>, b) \in Seq(S) /\ Len(Append(<<a>>, b)) = 2
      /\ \A i \in 1..1 : Append(<<a>>, b)[i] = <<a>>[i]
      /\ Append(<<a>>, b)[2] = b
  BY <1>1, AppendProperties
<1>3. \A i \in 1..2 : Append(<<a>>, b)[i] = <<a, b>>[i]
  <2>1. Append(<<a>>, b)[1] = a /\ Append(<<a>>, b)[2] = b
    BY <1>2
  <2>2. <<a, b>>[1] = a /\ <<a, b>>[2] = b
    OBVIOUS
  <2>3. \A i \in 1..2 : i = 1 \/ i = 2
    OBVIOUS
  <2> QED
    BY <2>1, <2>2, <2>3
<1>4. Append(<<a>>, b) = <<a, b>>
  BY <1>1, <1>2, <1>3, SeqEqual
<1> QED
  BY <1>1, <1>4, AppendIsConcat

(* The calls a patch makes follow those already made.                      *)
LEMMA CallsTold ==
    ASSUME NEW a \in Heard, NEW old, NEW new,
           LoggedIn(old) <=> a = <<"onLogin">>,
           LoggedIn(old) => old["NAME"] # NoValue,
           LoggedIn(new) => new["NAME"] # NoValue,
           a = <<"onLogin", "onLogout">> => ~LoggedIn(new)
    PROVE  /\ a \o Calls(old, new) \in Heard
           /\ LoggedIn(new) <=> a \o Calls(old, new) = <<"onLogin">>
<1>1. <<>> # <<"onLogin">> /\ <<>> # <<"onLogin", "onLogout">> /\ <<"onLogin">> # <<"onLogin", "onLogout">>
  OBVIOUS
<1> DEFINE Call == {"onLogin", "onLogout"}
<1>2. /\ <<>> \in Seq(Call) /\ <<"onLogin">> \in Seq(Call) /\ <<"onLogout">> \in Seq(Call)
      /\ <<"onLogin", "onLogout">> \in Seq(Call)
      /\ <<"onLogin">> \o <<"onLogout">> = <<"onLogin", "onLogout">>
  <2>1. "onLogin" \in Call /\ "onLogout" \in Call
    OBVIOUS
  <2> HIDE DEF Call
  <2>2. <<"onLogin">> \in Seq(Call) /\ <<"onLogin", "onLogout">> \in Seq(Call)
        /\ <<"onLogin">> \o <<"onLogout">> = <<"onLogin", "onLogout">>
    BY <2>1, PairOf
  <2>3. <<"onLogout">> \in Seq(Call)
    BY <2>1, PairOf
  <2>4. <<>> \in Seq(Call)
    BY EmptySeq
  <2> QED
    BY <2>2, <2>3, <2>4
<1> HIDE DEF Call
<1>3. /\ <<>> \o <<>> = <<>>
      /\ <<"onLogin">> \o <<>> = <<"onLogin">> /\ <<>> \o <<"onLogin">> = <<"onLogin">>
      /\ <<>> \o <<"onLogout">> = <<"onLogout">>
      /\ <<"onLogin", "onLogout">> \o <<>> = <<"onLogin", "onLogout">>
  BY <1>2, ConcatEmptySeq
<1>5. CASE a = <<>>
  <2>1. ~LoggedIn(old)
    BY <1>1, <1>5
  <2>2. Calls(old, new) = (IF LoggedIn(new) THEN <<"onLogin">> ELSE <<>>) \o <<>>
    BY <2>1 DEF Calls, Login, Logout
  <2>3. a \o Calls(old, new) = IF LoggedIn(new) THEN <<"onLogin">> ELSE <<>>
    BY <1>2, <1>3, <1>5, <2>2
  <2> QED
    BY <1>1, <2>3 DEF Heard
<1>6. CASE a = <<"onLogin">>
  <2>1. LoggedIn(old) /\ old["NAME"] # NoValue
    BY <1>6
  <2>2. Calls(old, new) = <<>> \o (IF LoggedIn(new) THEN <<>> ELSE <<"onLogout">>)
    BY <2>1 DEF Calls, Login, Logout
  <2>3. a \o Calls(old, new) = IF LoggedIn(new) THEN <<"onLogin">> ELSE <<"onLogin", "onLogout">>
    BY <1>2, <1>3, <1>6, <2>2
  <2> QED
    BY <1>1, <2>3 DEF Heard
<1>7. CASE a = <<"onLogin", "onLogout">>
  <2>1. ~LoggedIn(old) /\ ~LoggedIn(new)
    BY <1>1, <1>7
  <2>2. Calls(old, new) = <<>> \o <<>>
    BY <2>1 DEF Calls, Login, Logout
  <2>3. a \o Calls(old, new) = <<"onLogin", "onLogout">>
    BY <1>2, <1>3, <1>7, <2>2
  <2> QED
    BY <1>1, <2>1, <2>3 DEF Heard
<1> QED
  BY <1>5, <1>6, <1>7 DEF Heard

\* What ApplyRevisionPatch does with the patch m of u that comes first.
PatchApplies(w, m, u, P, Q) ==
    /\ u \in Users /\ 1 \in PatchesOf(down[w], u) /\ down[w][1] = m
    /\ m.value \in Values /\ m.revision \in Nat /\ P.revision <= m.revision
    /\ P \in Player /\ Q \in Player
    /\ Q = [revision |-> m.revision, value |-> Applied(P.value, m)]
    /\ announced' = [announced EXCEPT ![w][u] = @ \o Calls(P.value, Q.value)]
    /\ DOMAIN players' = Watchers
    /\ \A x \in Watchers :
           /\ DOMAIN players'[x] \subseteq Users
           /\ \A v \in DOMAIN players'[x] : players'[x][v] \in Player
    /\ \A x \in Watchers, v \in Users :
           x # w \/ v # u => GetFromId(x, v)' = GetFromId(x, v)

\* The player becomes the account as it was when m was made, or stays.
BecomesSnapshot(w, m, u, P, Q) ==
    \/ /\ Known(P, snapshots[u])
       /\ \E s \in snapshots[u] :
             /\ s.revision = m.revision
             /\ View(Q.value) = View(s.value)
             /\ s.revision = P.revision => View(s.value) = View(P.value)
             /\ P # NewPlayer /\ ~LoggedIn(P.value) => ~LoggedIn(s.value)
    \/ Hollow(w, u, 1) /\ Q.value = P.value

LEMMA PatchApplied ==
    ASSUME ReplicationInv, NEW w \in Watchers, ReceivePatch(w),
           NEW m, m = Head(down[w]), NEW u, u = m.user, u # 0,
           NEW P, P = GetFromId(w, u), NEW Q, Q = GetFromId(w, u)'
    PROVE  PatchApplies(w, m, u, P, Q) /\ BecomesSnapshot(w, m, u, P, Q)
<1> DEFINE d == down[w]
<1>1. d \in Seq(Message) /\ d # <<>> /\ m.kind = "Patch" /\ ReplicaTypes
  BY DEF ReplicationInv, ReplicaTypes, ReceivePatch
<1>2. m = d[1] /\ 1 \in DOMAIN d /\ m \in Message
  BY <1>1, TailFewer
<1>3. m \in UserPatch
  BY <1>1, <1>2 DEF Message, Notice, EmptyPatch
<1>4. u \in Users /\ m.value \in Values /\ m.revision \in Nat
  BY <1>3 DEF UserPatch
<1>5. 1 \in PatchesOf(d, u)
  BY <1>1, <1>2 DEF PatchesOf
<1>6. Line(w, u) /\ P \in Player /\ P.value \in [SharedProperty -> Value]
  BY <1>1, <1>4, PlayerTyped DEF ReplicationInv, Player
<1>7. P.revision <= m.revision
  BY <1>2, <1>5, <1>6 DEF Line, PatchesInOrder
<1> DEFINE value == Applied(P.value, m)
           player == [revision |-> m.revision, value |-> value]
<1>8. value \in [SharedProperty -> Value] /\ player \in Player
  BY <1>4, <1>6, AppliedTypes DEF Player
<1>9. /\ players' = [players EXCEPT ![w] =
               [v \in DOMAIN @ \cup {u} |-> IF v = u THEN player ELSE @[v]]]
      /\ announced' = [announced EXCEPT ![w][u] = @ \o Calls(P.value, value)]
  BY DEF ReceivePatch, Ignored
<1> HIDE DEF player, value
<1>10. /\ DOMAIN players' = Watchers /\ DOMAIN players = Watchers
       /\ players'[w] = [v \in DOMAIN players[w] \cup {u} |-> IF v = u THEN player ELSE players[w][v]]
       /\ \A x \in Watchers : x # w => players'[x] = players[x]
  BY <1>1, <1>9 DEF ReplicaTypes
<1>11. Q = player
  BY <1>10 DEF GetFromId
<1>12. \A x \in Watchers, v \in Users : x # w \/ v # u => GetFromId(x, v)' = GetFromId(x, v)
  BY <1>10 DEF GetFromId
<1>13. ASSUME NEW x \in Watchers
       PROVE  /\ DOMAIN players'[x] \subseteq Users
              /\ \A v \in DOMAIN players'[x] : players'[x][v] \in Player
  <2>1. DOMAIN players[x] \subseteq Users /\ \A v \in DOMAIN players[x] : players[x][v] \in Player
    BY <1>1 DEF ReplicaTypes
  <2> QED
    BY <1>4, <1>8, <1>10, <2>1
<1>14. \/ /\ Known(P, snapshots[u])
          /\ \E s \in snapshots[u] :
                /\ s.revision = m.revision
                /\ View(value) = View(s.value)
                /\ s.revision = P.revision => View(s.value) = View(P.value)
                /\ P # NewPlayer /\ ~LoggedIn(P.value) => ~LoggedIn(s.value)
       \/ Hollow(w, u, 1) /\ value = P.value
  <2>1. CASE Real(m, P.revision, snapshots[u])
    <3>1. Known(P, snapshots[u])
      BY <1>5, <1>6 DEF Line, PlayerKnown
    <3>2. snapshots[u] \in SUBSET Snapshot /\ Consistent(snapshots[u])
      BY <1>1, <1>4 DEF ReplicaTypes, ReplicationInv, History
    <3> QED
      BY <1>4, <1>6, <1>7, <2>1, <3>1, <3>2, ApplyReal DEF value
  <2>2. CASE Hollow(w, u, 1)
    <3>1. DOMAIN m.value = {}
      BY <1>2, <2>2 DEF Hollow
    <3>2. Patched(P.value, m) = P.value
      BY <1>6, <3>1 DEF Patched
    <3>3. value = P.value
      BY <3>2 DEF value, Applied, Logout
    <3> QED
      BY <2>2, <3>3
  <2>3. Real(d[1], P.revision, snapshots[u]) \/ Hollow(w, u, 1)
    BY <1>5, <1>6 DEF Line, PatchesInOrder
  <2> QED
    BY <1>2, <2>1, <2>2, <2>3
<1>15. Q.value = value /\ Q = [revision |-> m.revision, value |-> Applied(P.value, m)]
  BY <1>11 DEF player, value
<1>16. announced' = [announced EXCEPT ![w][u] = @ \o Calls(P.value, Q.value)]
  BY <1>9, <1>15
<1>17. BecomesSnapshot(w, m, u, P, Q)
  BY <1>14, <1>15 DEF BecomesSnapshot
<1>18. Q \in Player
  BY <1>8, <1>11
<1>19. PatchApplies(w, m, u, P, Q)
  BY <1>2, <1>4, <1>5, <1>6, <1>7, <1>10, <1>12, <1>13, <1>15, <1>16, <1>18 DEF PatchApplies
<1> QED
  BY <1>17, <1>19

LEMMA IgnoredPatchStep ==
    ASSUME ReplicationInv, AccountInv', NEW w \in Watchers, ReceivePatch(w), Ignored(Head(down[w]))
    PROVE  ReplicationInv'
<1>1. UNCHANGED <<vars, snapshots>> /\ UNCHANGED <<joined, up, serving, players, announced>>
      /\ down' = [down EXCEPT ![w] = Tail(@)] /\ down[w] # <<>>
  BY DEF ReceivePatch
<1>2. down \in [Watchers -> Seq(Message)]
  BY DEF ReplicationInv, ReplicaTypes
<1>3. Tail(down[w]) \in Seq(Message) /\ \A u : Fewer(Tail(down[w]), down[w], u)
  BY <1>1, <1>2, TailFewer DEF Fewer
<1>4. ReplicaTypes'
  BY <1>1, <1>2, <1>3 DEF ReplicationInv, ReplicaTypes
<1>5. ASSUME NEW x \in Watchers, NEW u \in Users
      PROVE  RequestsOld(x, u)' /\ AnswerStays(x, u) /\ Fewer(down'[x], down[x], u)
  <2>1. RequestsOld(x, u)'
    BY <1>1 DEF ReplicationInv, Line, RequestsOld, Serving, GetFromId
  <2>2. AnswerStays(x, u)
    BY <1>1 DEF AnswerStays, Answering, Serving, vars
  <2>3. Fewer(down'[x], down[x], u)
    <3>1. CASE x = w
      BY <3>1, <1>1, <1>2, <1>3
    <3>2. CASE x # w
      <4>1. down'[x] = down[x] /\ down[x] \in Seq(Message)
        BY <3>2, <1>1, <1>2
      <4> QED
        BY <4>1, SameFewer
    <3> QED
      BY <3>1, <3>2
  <2> QED
    BY <2>1, <2>2, <2>3
<1>6. AccountInv' /\ max_user_id' <= MaxUsers /\ \A u \in Users : History(u)' /\ Extends(u)
  BY <1>1, StillAccounts
<1> QED
  BY <1>1, <1>4, <1>5, <1>6, QuietStep

LEMMA ReceivePatchStep ==
    ASSUME ReplicationInv, AccountInv', NEW w \in Watchers, ReceivePatch(w),
           NEW m, m = Head(down[w]), NEW u, u = m.user, u # 0,
           NEW P, P = GetFromId(w, u), NEW Q, Q = GetFromId(w, u)'
    PROVE  ReplicationInv'
<1> DEFINE d == down[w]
           e == Tail(d)
           a == announced[w][u]
           S == snapshots[u]
<1>0. PatchApplies(w, m, u, P, Q) /\ BecomesSnapshot(w, m, u, P, Q)
  BY PatchApplied
<1>1. /\ u \in Users /\ 1 \in PatchesOf(d, u) /\ d[1] = m
      /\ m.value \in Values /\ m.revision \in Nat /\ P.revision <= m.revision
      /\ P \in Player /\ Q \in Player /\ Q.revision = m.revision
  <2>1. Q = [revision |-> m.revision, value |-> Applied(P.value, m)]
    BY <1>0 DEF PatchApplies
  <2>2. Q.revision = m.revision
    BY <2>1
  <2>3. /\ u \in Users /\ 1 \in PatchesOf(d, u) /\ d[1] = m
        /\ m.value \in Values /\ m.revision \in Nat /\ P.revision <= m.revision
        /\ P \in Player /\ Q \in Player
    BY <1>0 DEF PatchApplies
  <2> QED
    BY <2>2, <2>3
<1>2. \/ Hollow(w, u, 1) /\ Q.value = P.value
      \/ \E s \in S :
            /\ s.revision = m.revision
            /\ View(Q.value) = View(s.value)
            /\ P # NewPlayer /\ ~LoggedIn(P.value) => ~LoggedIn(s.value)
  BY <1>0 DEF BecomesSnapshot
<1>3. UNCHANGED <<vars, snapshots>> /\ UNCHANGED <<joined, up, serving>>
      /\ down' = [down EXCEPT ![w] = Tail(@)] /\ d # <<>>
  BY DEF ReceivePatch
<1>4. down \in [Watchers -> Seq(Message)] /\ announced \in [Watchers -> [Users -> Heard]]
      /\ ReplicaTypes /\ d \in Seq(Message)
  BY DEF ReplicationInv, ReplicaTypes
<1>5. /\ e \in Seq(Message)
      /\ \A i \in PatchesOf(e, u) : i + 1 \in PatchesOf(d, u) /\ e[i] = d[i + 1]
  BY <1>3, <1>4, TailFewer
<1>16. \A v : Fewer(e, d, v)
  BY <1>3, <1>4, TailFewer DEF Fewer
<1>6. /\ down'[w] = e /\ down' \in [Watchers -> Seq(Message)]
      /\ \A x \in Watchers : x # w => down'[x] = down[x]
  BY <1>3, <1>4, <1>5
<1>7. Line(w, u) /\ P.revision \in Nat /\ Q.revision = m.revision /\ P.value \in [SharedProperty -> Value]
      /\ Q.value \in [SharedProperty -> Value] /\ S \in SUBSET Snapshot /\ Consistent(S)
  BY <1>1, <1>4 DEF ReplicationInv, Player, ReplicaTypes, History
<1>17. P.revision <= m.revision /\ m.revision \in Nat /\ P.revision \in Nat
  BY <1>1, <1>7
<1>8. /\ LoggedIn(P.value) <=> a = <<"onLogin">>
      /\ LoggedIn(P.value) => P.value["NAME"] # NoValue
      /\ P.revision = 0 => a = <<>>
      /\ a \in Heard
  BY <1>1, <1>4, <1>7 DEF Line, Told
<1>9. /\ LoggedIn(Q.value) => Q.value["NAME"] # NoValue
      /\ a = <<"onLogin", "onLogout">> => ~LoggedIn(Q.value)
      /\ m.revision = 0 => P.revision = 0 /\ Q.value = P.value
  <2>1. m.revision = 0 => P.revision = 0
    BY <1>17
  <2>2. <<"onLogin", "onLogout">> # <<>> /\ <<"onLogin", "onLogout">> # <<"onLogin">>
    OBVIOUS
  <2>3. CASE Q.value = P.value
    BY <2>1, <2>2, <2>3, <1>8
  <2>4. ASSUME NEW s \in S, s.revision = m.revision, View(Q.value) = View(s.value),
               P # NewPlayer /\ ~LoggedIn(P.value) => ~LoggedIn(s.value)
        PROVE  /\ LoggedIn(Q.value) => Q.value["NAME"] # NoValue
               /\ a = <<"onLogin", "onLogout">> => ~LoggedIn(Q.value)
               /\ m.revision # 0
    <3>1. s.value \in [SharedProperty -> Value] /\ m.revision # 0
      BY <1>7, <2>4 DEF Snapshot
    <3>2. View(Q.value)["LOGIN"] = Q.value["LOGIN"] /\ View(s.value)["LOGIN"] = s.value["LOGIN"]
          /\ View(Q.value)["NAME"] = Q.value["NAME"] /\ View(s.value)["NAME"] = s.value["NAME"]
      BY <3>1, <1>7, SharedIsProperty DEF View
    <3>3. s.value["NAME"] # NoValue
      BY <1>7 DEF Consistent
    <3>4. a = <<"onLogin", "onLogout">> => P # NewPlayer /\ ~LoggedIn(P.value)
      BY <2>2, <1>8 DEF NewPlayer
    <3> QED
      BY <3>1, <3>2, <3>3, <3>4, <2>4 DEF LoggedIn
  <2> QED
    BY <1>2, <2>1, <2>3, <2>4
<1>10. /\ a \o Calls(P.value, Q.value) \in Heard
       /\ LoggedIn(Q.value) <=> a \o Calls(P.value, Q.value) = <<"onLogin">>
  <2> HIDE DEF a
  <2> QED
    BY <1>8, <1>9, CallsTold
<1>11. /\ announced' \in [Watchers -> [Users -> Heard]]
       /\ announced'[w][u] = a \o Calls(P.value, Q.value)
       /\ \A x \in Watchers, v \in Users : x # w \/ v # u => announced'[x][v] = announced[x][v]
  <2>1. announced' = [announced EXCEPT ![w][u] = @ \o Calls(P.value, Q.value)]
    BY <1>0 DEF PatchApplies
  <2> QED
    BY <2>1, <1>1, <1>4, <1>10
<1>12. ReplicaTypes'
  BY <1>0, <1>3, <1>4, <1>6, <1>11 DEF ReplicaTypes, PatchApplies
<1>13. AccountInv' /\ max_user_id' <= MaxUsers /\ \A x \in Users : History(x)' /\ Extends(x)
  BY <1>3, StillAccounts
<1>14. ASSUME NEW x \in Watchers, NEW v \in Users, x # w \/ v # u PROVE Line(x, v)'
  <2>1. GetFromId(x, v)' = GetFromId(x, v) /\ announced'[x][v] = announced[x][v]
    BY <1>0, <1>11, <1>14 DEF PatchApplies
  <2>a. Fewer(down'[x], down[x], v)
    <3>1. CASE x = w
      BY <3>1, <1>6, <1>16
    <3>2. CASE x # w
      BY <3>2, <1>4, <1>6, SameFewer
    <3> QED
      BY <3>1, <3>2
  <2>2. PICK k \in Nat : \A i \in PatchesOf(down'[x], v) :
                           i + k \in PatchesOf(down[x], v) /\ down'[x][i] = down[x][i + k]
    BY <2>a DEF Fewer
  <2>3. Line(x, v) /\ GoodMap(user_map) /\ GoodMap(user_map')
    BY <1>13 DEF ReplicationInv, AccountInv
  <2>4. RequestsOld(x, v)'
    BY <1>3, <2>1, <2>3 DEF Line, RequestsOld, Serving
  <2>5. AnswerStays(x, v)
    BY <1>3 DEF AnswerStays, Answering, Serving, vars
  <2> QED
    BY <1>4, <1>12, <1>13, <2>1, <2>2, <2>3, <2>4, <2>5, LineSurvives
<1>15. Line(w, u)'
  <2>0. /\ \A i \in PatchesOf(d, u) : i \in Nat /\ 1 <= i /\ d[i].revision \in Nat
        /\ \A i \in PatchesOf(e, u) : i \in Nat /\ 1 <= i
    <3>1. \A i \in PatchesOf(d, u) : i \in 1..Len(d) /\ d[i].revision \in Nat
      BY <1>1, <1>4, PatchTyped
    <3>2. \A i \in PatchesOf(e, u) : i \in 1..Len(e)
      BY <1>1, <1>5, PatchTyped
    <3>3. Len(d) \in Nat /\ Len(e) \in Nat
      BY <1>4, <1>5, LenProperties
    <3> QED
      BY <3>1, <3>2, <3>3
  <2>1. /\ user_map' = user_map /\ snapshots' = snapshots /\ serving' = serving /\ up' = up
        /\ Answering(w, u)' <=> Answering(w, u)
        /\ Gone(u)' <=> Gone(u)
    BY <1>3 DEF vars, Answering, Serving, Gone
  <2> HIDE DEF d, e
  <2>2. PatchesInOrder(w, u)'
    <3> SUFFICES ASSUME NEW i \in PatchesOf(e, u)
                 PROVE  /\ m.revision <= e[i].revision
                        /\ \A j \in PatchesOf(e, u) : i <= j => e[i].revision <= e[j].revision
                        /\ Real(e[i], m.revision, S) \/ Hollow(w, u, i)'
      BY <1>6, <1>7, <2>1 DEF PatchesInOrder
    <3>1. i + 1 \in PatchesOf(d, u) /\ e[i] = d[i + 1] /\ 1 <= i + 1
      BY <1>5, <2>0
    <3>2. m.revision <= e[i].revision
      BY <3>1, <1>1, <1>7 DEF Line, PatchesInOrder, d
    <3>3. ASSUME NEW j \in PatchesOf(e, u), i <= j PROVE e[i].revision <= e[j].revision
      <4>1. j + 1 \in PatchesOf(d, u) /\ e[j] = d[j + 1] /\ i + 1 <= j + 1
        BY <3>3, <1>5, <2>0
      <4> QED
        BY <3>1, <4>1, <1>7 DEF Line, PatchesInOrder, d
    <3>4. Real(d[i + 1], P.revision, S) \/ Hollow(w, u, i + 1)
      BY <3>1, <1>7 DEF Line, PatchesInOrder, d
    <3>5. CASE Real(d[i + 1], P.revision, S)
      BY <3>1, <3>2, <3>3, <3>5, <1>1, <1>7, RealSurvives
    <3>6. CASE Hollow(w, u, i + 1)
      <4>1. \A j \in PatchesOf(e, u) : j <= i
        BY <3>6, <1>5, <2>0 DEF Hollow, d
      <4>2. Hollow(w, u, i)'
        BY <3>1, <3>6, <4>1, <2>1, <1>6 DEF Hollow, d
      <4> QED
        BY <3>2, <3>3, <4>2
    <3> QED
      BY <3>4, <3>5, <3>6
  <2>3. NotAhead(w, u)'
    BY <1>1, <1>5, <1>6, <1>7, <2>1 DEF Line, NotAhead, d
  <2>4. AnswerSound(w, u)'
    BY <1>1, <1>5, <1>6, <1>7, <2>1 DEF Line, AnswerSound, d
  <2>5. RequestsOld(w, u)'
    <3>1. /\ \A i \in DOMAIN up[w] : up[w][i].user = u => up[w][i].revision <= P.revision
          /\ Serving(w, u) => serving.request.revision <= P.revision
      BY <1>7 DEF Line, RequestsOld
    <3>2. \A i \in DOMAIN up[w] : up[w][i].user = u => up[w][i].revision \in Nat
      <4> SUFFICES ASSUME NEW i \in DOMAIN up[w] PROVE up[w][i].revision \in Nat
        OBVIOUS
      <4>1. up[w] \in Seq(Request)
        BY <1>4 DEF ReplicaTypes
      <4>2. up[w][i] \in Request
        BY <4>1
      <4> QED
        BY <4>2 DEF Request
    <3>3. Serving(w, u) => serving.request.revision \in Nat
      BY <1>4 DEF Serving, ReplicaTypes, Request
    <3>4. Serving(w, u)' <=> Serving(w, u)
      BY <2>1 DEF Serving
    <3> QED
      BY <1>1, <1>7, <2>1, <3>1, <3>2, <3>3, <3>4 DEF RequestsOld
  <2>6. PlayerKnown(w, u)'
    <3>1. CASE Hollow(w, u, 1)
      <4>1. PatchesOf(e, u) = {}
        <5> SUFFICES ASSUME NEW i \in PatchesOf(e, u) PROVE FALSE
          OBVIOUS
        <5> QED
          BY <3>1, <1>5, <2>0 DEF Hollow, d
      <4> QED
        BY <3>1, <4>1, <2>1, <1>6 DEF Hollow, PlayerKnown
    <3>2. CASE \E s \in S : s.revision = m.revision /\ View(Q.value) = View(s.value)
      <4>1. Known(Q, S)
        BY <3>2, <1>7 DEF Known
      <4> QED
        BY <4>1, <2>1 DEF PlayerKnown
    <3> QED
      BY <3>1, <3>2, <1>2
  <2>7. Told(w, u)'
    <3>1. m.revision = 0 => announced'[w][u] = <<>>
      <4> SUFFICES ASSUME m.revision = 0 PROVE announced'[w][u] = <<>>
        OBVIOUS
      <4>1. a = <<>> /\ Q.value = P.value
        BY <1>8, <1>9
      <4>2. ~LoggedIn(Q.value)
        <5>1. <<>> # <<"onLogin">>
          OBVIOUS
        <5> QED
          BY <4>1, <1>8, <5>1
      <4>3. Calls(P.value, Q.value) = <<>> \o <<>>
        BY <4>1, <4>2 DEF Calls, Login, Logout
      <4>4. <<>> \o <<>> = <<>>
        BY ConcatEmptySeq, EmptySeq
      <4> QED
        BY <4>1, <4>3, <4>4, <1>11
    <3> QED
      BY <3>1, <1>7, <1>9, <1>10, <1>11 DEF Told
  <2> QED
    BY <2>2, <2>3, <2>4, <2>5, <2>6, <2>7 DEF Line
<1> QED
  BY <1>12, <1>13, <1>14, <1>15 DEF ReplicationInv

-----------------------------------------------------------------------------
(* The inductive invariant holds.                                          *)

LEMMA InitReplication == ReplicationInit => ReplicationInv
<1> SUFFICES ASSUME ReplicationInit PROVE ReplicationInv
  OBVIOUS
<1>1. AccountInv /\ max_user_id = 0 /\ DOMAIN user_map = {}
  BY InitAccount DEF ReplicationInit, Init
<1>2. ReplicaTypes
  <2>1. \A S : <<>> \in Seq(S)
    BY EmptySeq
  <2> QED
    BY <2>1 DEF ReplicationInit, ReplicaTypes, Heard
<1>3. \A u \in Users : snapshots[u] = {} /\ u \notin DOMAIN user_map
  BY <1>1 DEF ReplicationInit
<1>4. \A u \in Users : History(u)
  BY <1>3 DEF History, Consistent
<1>5. ASSUME NEW w \in Watchers, NEW u \in Users PROVE Line(w, u)
  <2>1. GetFromId(w, u) = NewPlayer /\ announced[w][u] = <<>> /\ down[w] = <<>> /\ up[w] = <<>>
    BY DEF ReplicationInit, GetFromId
  <2>2. ~LoggedIn(NewPlayer.value)
    BY SharedIsProperty, TextAssumption DEF LoggedIn, NewPlayer
  <2>3. PatchesOf(down[w], u) = {} /\ DOMAIN up[w] = {}
    BY <2>1 DEF PatchesOf
  <2>4. serving = NoRequest
    BY DEF ReplicationInit
  <2>5. <<>> # <<"onLogin">>
    OBVIOUS
  <2>6. PatchesInOrder(w, u) /\ NotAhead(w, u) /\ AnswerSound(w, u) /\ RequestsOld(w, u)
    BY <1>3, <2>3, <2>4 DEF PatchesInOrder, NotAhead, AnswerSound, RequestsOld, Answering, Serving
  <2>7. PlayerKnown(w, u) /\ Told(w, u)
    BY <2>1, <2>2, <2>5 DEF PlayerKnown, Known, Told
  <2> QED
    BY <2>6, <2>7 DEF Line
<1>6. max_user_id <= MaxUsers
  BY <1>1, ReplicationAssumption
<1> QED
  BY <1>1, <1>2, <1>4, <1>5, <1>6 DEF ReplicationInv

LEMMA StutterReplication ==
    ASSUME ReplicationInv, UNCHANGED allVars
    PROVE  ReplicationInv'
<1>1. AccountInv' /\ max_user_id' <= MaxUsers /\ \A x \in Users : History(x)' /\ Extends(x)
  BY StillAccounts DEF allVars
<1>2. UNCHANGED <<joined, down, up, serving, players, announced, snapshots>>
  BY DEF allVars, replicas
<1>3. ReplicaTypes'
  BY <1>2 DEF ReplicationInv, ReplicaTypes
<1>4. ASSUME NEW x \in Watchers, NEW u \in Users
      PROVE  RequestsOld(x, u)' /\ AnswerStays(x, u) /\ Fewer(down'[x], down[x], u)
  <2>1. RequestsOld(x, u)'
    BY <1>2 DEF ReplicationInv, Line, RequestsOld, Serving, GetFromId
  <2>2. AnswerStays(x, u)
    BY <1>2 DEF AnswerStays, Answering, Serving, allVars, vars
  <2>3. Fewer(down'[x], down[x], u)
    BY <1>2, SameFewer DEF ReplicationInv, ReplicaTypes
  <2> QED
    BY <2>1, <2>2, <2>3
<1> QED
  BY <1>1, <1>2, <1>3, <1>4, QuietStep

LEMMA NextReplication == ReplicationInv /\ [ReplicationNext]_allVars => ReplicationInv'
<1> SUFFICES ASSUME ReplicationInv, ReplicationNext PROVE ReplicationInv'
  BY StutterReplication
<1>1. AccountInv'
  BY AccountStep, NextAccount DEF ReplicationInv
<1>2. ASSUME NEW k \in Keys, NEW ip \in Addresses, NEW port \in Addresses, PublicKey(k, ip, port)
      PROVE  ReplicationInv'
  BY <1>1, <1>2, PublicKeyStep
<1>3. ASSUME NEW u \in DOMAIN user_map, NEW data \in TextData, InitializeData(u, data)
      PROVE  ReplicationInv'
  BY <1>1, <1>3, InitializeDataStep
<1>4. ASSUME NEW u \in DOMAIN user_map, UpdateProperty(u) PROVE ReplicationInv'
  BY <1>1, <1>4, UpdatePropertyStep
<1>5. ASSUME NEW u \in online, FatalConnectionError(u) PROVE ReplicationInv'
  BY <1>1, <1>5, FatalConnectionErrorStep
<1>6. ASSUME NEW u \in removing \cup erasing, RemovalThread(u) PROVE ReplicationInv'
  BY <1>1, <1>6, RemovalThreadStep
<1>7. ASSUME NEW w \in Watchers, Join(w) PROVE ReplicationInv'
  BY <1>1, <1>7, JoinStep
<1>8. ASSUME NEW w \in Watchers, PatchRequested(w) PROVE ReplicationInv'
  BY <1>1, <1>8, PatchRequestedStep
<1>9. ASSUME NEW w \in Watchers, ReceiveNotify(w) PROVE ReplicationInv'
  BY <1>1, <1>9, ReceiveNotifyStep
<1>10. ASSUME NEW w \in Watchers, ReceivePatch(w) PROVE ReplicationInv'
  <2>1. CASE Ignored(Head(down[w]))
    BY <1>1, <1>10, <2>1, IgnoredPatchStep
  <2>2. CASE ~Ignored(Head(down[w]))
    <3>1. Head(down[w]).user # 0
      BY <2>2 DEF Ignored
    <3>2. PICK m, u, P, Q : /\ m = Head(down[w]) /\ u = m.user
                            /\ P = GetFromId(w, u) /\ Q = GetFromId(w, u)'
      OBVIOUS
    <3> QED
      BY <1>1, <1>10, <3>1, <3>2, ReceivePatchStep
  <2> QED
    BY <2>1, <2>2
<1>11. ASSUME PatchStarted PROVE ReplicationInv'
  BY <1>1, <1>11, PatchStartedStep
<1>12. ASSUME PatchSent PROVE ReplicationInv'
  BY <1>1, <1>12, PatchSentStep
<1> QED
  BY <1>2, <1>3, <1>4, <1>5, <1>6, <1>7, <1>8, <1>9, <1>10, <1>11, <1>12 DEF ReplicationNext

(* What the proofs below rest on, for any users, watchers and messages on  *)
(* their way: the types, the revisions of requests and patches, and the    *)
(* order in which a watcher hears of an account (server/main.cpp:281-304,  *)
(* client/CommandManager.cpp:188-213).                                     *)
THEOREM ReplicationInvariant == ReplicationSpec => []ReplicationInv
<1> QED
  BY InitReplication, NextReplication, PTL DEF ReplicationSpec

(* Whatever is under way between the server and its clients, the players   *)
(* of each client are well typed, and its scripts hear of each user's      *)
(* login and logout once and in this order, although patches overlap and   *)
(* repeat what a client has: PlayerManager::ApplyRevisionPatch.            *)
THEOREM PlayersAreSound == ReplicationSpec => []PlayersSound
<1>1. ASSUME ReplicationInv PROVE ReplicationTypeOK
  <2>1. TypeOK /\ ReplicaTypes
    BY <1>1 DEF ReplicationInv, AccountInv
  <2>2. ASSUME NEW w \in Watchers, NEW i \in DOMAIN down[w]
        PROVE  down[w][i] \in Notice \/ IsPatch(down[w][i])
    <3>1. down[w] \in Seq(Message)
      BY <2>1 DEF ReplicaTypes
    <3>2. down[w][i] \in Message
      BY <3>1
    <3>3. CASE down[w][i] = EmptyPatch
      BY <3>3 DEF IsPatch, EmptyPatch
    <3>4. CASE down[w][i] \in UserPatch
      <4>1. down[w][i].value \in Values /\ down[w][i].kind = "Patch" /\ down[w][i].user \in Users
        BY <3>4 DEF UserPatch
      <4> QED
        BY <4>1, ValuesOf DEF IsPatch
    <3> QED
      BY <3>2, <3>3, <3>4 DEF Message
  <2> QED
    BY <2>1, <2>2 DEF ReplicationTypeOK, ReplicaTypes
<1>2. ASSUME ReplicationInv PROVE CallsInOrder
  <2> SUFFICES ASSUME NEW w \in Watchers, NEW u \in Users
               PROVE  /\ announced[w][u] \in Heard
                      /\ LoggedIn(GetFromId(w, u).value) <=> announced[w][u] = <<"onLogin">>
    BY DEF CallsInOrder, Heard
  <2> QED
    BY <1>2 DEF ReplicationInv, Line, Told, ReplicaTypes
<1>3. ReplicationInv => PlayersSound
  BY <1>1, <1>2 DEF PlayersSound
<1> QED
  BY ReplicationInvariant, <1>3, PTL

-----------------------------------------------------------------------------
(* The refinement: what a client sees of an account is a replica of the    *)
(* account's snapshots.                                                    *)

SeenSnapshots == {Seen(s) : s \in snapshots[TheUser]}
SeenCopy == Seen(GetFromId(TheWatcher, TheUser))
Erased == snapshots[TheUser] # {} /\ TheUser \notin DOMAIN user_map

LEMMA SameReplica ==
    ASSUME snapshots' = snapshots, GetFromId(TheWatcher, TheUser)' = GetFromId(TheWatcher, TheUser),
           TheUser \in DOMAIN user_map' <=> TheUser \in DOMAIN user_map
    PROVE  UNCHANGED Replica!vars
<1>1. SeenSnapshots' = SeenSnapshots /\ SeenCopy' = SeenCopy
  BY DEF SeenSnapshots, SeenCopy
<1>2. (Erased)' = Erased
  BY DEF Erased
<1> QED
  BY <1>1, <1>2 DEF Replica!vars, SeenSnapshots, SeenCopy, Erased

(* A handler that changes the account publishes it.                        *)
LEMMA HandlerRefines ==
    ASSUME ReplicationInv, ReplicationInv', Published, players' = players,
           NEW v, DOMAIN user_map' = DOMAIN user_map \cup {v},
           v \in DOMAIN user_map \/ v > max_user_id
    PROVE  Replica!Publish \/ UNCHANGED Replica!vars
<1> DEFINE u == TheUser
           S == snapshots[u]
           T == snapshots'[u]
           new == [revision |-> user_map'[u].REVISION, value |-> Shared(user_map'[u])]
<1>1. u \in Users /\ TheWatcher \in Watchers
  BY ReplicationAssumption
<1>2. \/ T = S
      \/ u \in DOMAIN user_map' /\ T = S \cup {new}
  BY <1>1 DEF Published, GetUserRevision, AccountOf
<1>3. GetFromId(TheWatcher, u)' = GetFromId(TheWatcher, u)
  BY DEF GetFromId
<1>4. SeenCopy' = SeenCopy
  BY <1>3 DEF SeenCopy
<1>5. u \in DOMAIN user_map' => u \in DOMAIN user_map \/ S = {}
  BY <1>1 DEF ReplicationInv, History
<1>6. CASE T = S
  <2>1. SeenSnapshots' = SeenSnapshots
    BY <1>6 DEF SeenSnapshots
  <2>2. (Erased)' = Erased
    BY <1>5, <1>6 DEF Erased
  <2> QED
    BY <1>4, <2>1, <2>2 DEF Replica!vars, SeenSnapshots, SeenCopy, Erased
<1>7. CASE T # S /\ u \in DOMAIN user_map' /\ T = S \cup {new}
  <2>1. ~Erased /\ ~(Erased)'
    BY <1>5, <1>7 DEF Erased
  <2>2. SeenSnapshots' = SeenSnapshots \cup {Seen(new)}
    BY <1>7 DEF SeenSnapshots
  <2>3. \A t \in S : t.revision < new.revision
    <3> SUFFICES ASSUME NEW t \in S PROVE t.revision < new.revision
      OBVIOUS
    <3>1. t \in T /\ new \in T /\ t # new
      BY <1>7
    <3>2. T \in SUBSET Snapshot
      BY <1>1 DEF ReplicationInv, ReplicaTypes
    <3>3. t.revision \in Nat /\ new.revision \in Nat
      BY <3>1, <3>2 DEF Snapshot
    <3>4. t.revision # new.revision
      BY <1>1, <3>1 DEF ReplicationInv, History, Consistent
    <3>5. CopyAgrees(AsCopy(u, t))'
      BY <1>1, <3>1 DEF ReplicationInv, History
    <3>6. t.revision <= new.revision
      BY <1>7, <3>5 DEF CopyAgrees, AsCopy
    <3> QED
      BY <3>3, <3>4, <3>6
  <2>4. \A s : Seen(s).revision = s.revision
    BY DEF Seen
  <2>5. \A t \in SeenSnapshots : t.revision < Seen(new).revision
    BY <2>3, <2>4 DEF SeenSnapshots
  <2>6. Seen(new) \in SeenSnapshots'
    BY <2>2
  <2>7. UNCHANGED <<SeenCopy, Erased>>
    BY <1>4, <2>1 DEF Erased
  <2> HIDE DEF new
  <2>8. /\ ~Erased
        /\ \E s \in SeenSnapshots' :
              /\ SeenSnapshots' = SeenSnapshots \cup {s}
              /\ \A t \in SeenSnapshots : t.revision < s.revision
        /\ UNCHANGED <<SeenCopy, Erased>>
    BY <2>1, <2>2, <2>5, <2>6, <2>7
  <2> QED
    BY <2>8 DEF Replica!Publish, SeenSnapshots, SeenCopy, Erased
<1> QED
  BY <1>2, <1>6, <1>7

(* The removal thread makes the account vanish.                            *)
LEMMA RemovalRefines ==
    ASSUME ReplicationInv, NEW u \in removing \cup erasing, RemovalThread(u)
    PROVE  Replica!Vanish \/ UNCHANGED Replica!vars
<1>1. UNCHANGED <<players, snapshots>> /\ DOMAIN user_map' \subseteq DOMAIN user_map
  BY DEF RemovalThread, RemoveReads, RemoveErases, Erase, replicas
<1>2. GetFromId(TheWatcher, TheUser)' = GetFromId(TheWatcher, TheUser)
  BY <1>1 DEF GetFromId
<1>3. CASE TheUser \in DOMAIN user_map' <=> TheUser \in DOMAIN user_map
  BY <1>1, <1>2, <1>3, SameReplica
<1>4. CASE TheUser \in DOMAIN user_map /\ TheUser \notin DOMAIN user_map'
  <2>1. snapshots[TheUser] # {}
    BY <1>4, ReplicationAssumption DEF ReplicationInv, History
  <2>2. SeenSnapshots # {} /\ (Erased)' /\ UNCHANGED <<SeenSnapshots, SeenCopy>>
    BY <1>1, <1>2, <1>4, <2>1 DEF SeenSnapshots, SeenCopy, Erased
  <2>3. (Erased)' = TRUE
    BY <2>2 DEF Erased
  <2> QED
    BY <2>2, <2>3 DEF Replica!Vanish, SeenSnapshots, SeenCopy, Erased
<1> QED
  BY <1>1, <1>3, <1>4

(* A patch refreshes what the client sees, repeats it, or, once the        *)
(* account is gone, leaves the player at a revision that never was.        *)
LEMMA ReceiveRefines ==
    ASSUME ReplicationInv, NEW w \in Watchers, ReceivePatch(w)
    PROVE  Replica!Refresh \/ Replica!Decay \/ UNCHANGED Replica!vars
<1>1. UNCHANGED <<vars, snapshots>>
  BY DEF ReceivePatch
<1>2. user_map' = user_map
  BY <1>1 DEF vars
<1>3. TheUser \in Users /\ TheWatcher \in Watchers
  BY ReplicationAssumption
<1>4. CASE Ignored(Head(down[w]))
  <2>1. players' = players
    BY <1>4 DEF ReceivePatch
  <2>2. GetFromId(TheWatcher, TheUser)' = GetFromId(TheWatcher, TheUser)
    BY <2>1 DEF GetFromId
  <2> QED
    BY <1>1, <1>2, <2>2, SameReplica
<1>5. CASE ~Ignored(Head(down[w]))
  <2>1. PICK m, u, P, Q : /\ m = Head(down[w]) /\ u = m.user
                          /\ P = GetFromId(w, u) /\ Q = GetFromId(w, u)'
    OBVIOUS
  <2>2. u # 0
    BY <1>5, <2>1 DEF Ignored
  <2>3. PatchApplies(w, m, u, P, Q) /\ BecomesSnapshot(w, m, u, P, Q)
    BY <2>1, <2>2, PatchApplied
  <2>4. CASE TheWatcher # w \/ TheUser # u
    <3>1. GetFromId(TheWatcher, TheUser)' = GetFromId(TheWatcher, TheUser)
      BY <1>3, <2>3, <2>4 DEF PatchApplies
    <3> QED
      BY <1>1, <1>2, <3>1, SameReplica
  <2>5. CASE TheWatcher = w /\ TheUser = u
    <3>1. SeenCopy = Seen(P) /\ SeenCopy' = Seen(Q)
      BY <2>1, <2>5 DEF SeenCopy
    <3>2. UNCHANGED <<SeenSnapshots, Erased>>
      BY <1>1, <1>2 DEF SeenSnapshots, Erased
    <3>3. CASE Hollow(w, u, 1)
      <4>1. Erased
        BY <3>3, <2>5 DEF Hollow, Gone, Erased
      <4> QED
        BY <3>2, <4>1 DEF Replica!Decay, SeenSnapshots, Erased
    <3>4. ASSUME NEW s \in snapshots[u], s.revision = m.revision, View(Q.value) = View(s.value),
                 s.revision = P.revision => View(s.value) = View(P.value)
          PROVE  Replica!Refresh \/ UNCHANGED Replica!vars
      <4>0. P.revision <= m.revision /\ P \in Player /\ m.revision \in Nat
        BY <2>3 DEF PatchApplies
      <4>1. Q = [revision |-> m.revision, value |-> Applied(P.value, m)]
        BY <2>3 DEF PatchApplies
      <4>2. Q.revision = s.revision /\ P.revision <= s.revision
            /\ P.revision \in Nat /\ s.revision \in Nat
        BY <3>4, <4>0, <4>1 DEF Player
      <4>3. Seen(Q) = Seen(s) /\ Seen(s) \in SeenSnapshots
        BY <2>5, <3>4, <4>2 DEF Seen, SeenSnapshots
      <4>4. CASE s.revision = P.revision
        <5>1. Seen(Q) = Seen(P)
          BY <3>4, <4>3, <4>4 DEF Seen
        <5>2. SeenCopy' = SeenCopy
          BY <3>1, <5>1
        <5> QED
          BY <3>2, <5>2 DEF Replica!vars, SeenSnapshots, SeenCopy, Erased
      <4>5. CASE s.revision # P.revision
        <5>1. Seen(s).revision > SeenCopy.revision
          BY <3>1, <4>2, <4>5 DEF Seen
        <5>2. /\ \E t \in SeenSnapshots :
                    /\ SeenCopy # Seen(NewPlayer) => t.revision > SeenCopy.revision
                    /\ SeenCopy' = t
              /\ UNCHANGED <<SeenSnapshots, Erased>>
          BY <3>1, <3>2, <4>3, <5>1
        <5> QED
          BY <5>2 DEF Replica!Refresh, SeenSnapshots, SeenCopy, Erased
      <4> QED
        BY <4>4, <4>5
    <3> QED
      BY <2>3, <3>3, <3>4 DEF BecomesSnapshot
  <2> QED
    BY <2>4, <2>5
<1> QED
  BY <1>4, <1>5

LEMMA ReplicaInit == ReplicationInit => Replica!Init
<1> SUFFICES ASSUME ReplicationInit PROVE Replica!Init
  OBVIOUS
<1>1. TheUser \in Users /\ TheWatcher \in Watchers
  BY ReplicationAssumption
<1>2. snapshots[TheUser] = {} /\ GetFromId(TheWatcher, TheUser) = NewPlayer
  BY <1>1 DEF ReplicationInit, GetFromId
<1>3. SeenSnapshots = {} /\ SeenCopy = Seen(NewPlayer) /\ Erased = FALSE
  BY <1>2 DEF SeenSnapshots, SeenCopy, Erased
<1> QED
  BY <1>3 DEF Replica!Init, SeenSnapshots, SeenCopy, Erased

LEMMA ReplicaNext ==
    ReplicationInv /\ ReplicationInv' /\ [ReplicationNext]_allVars => [Replica!Next]_(Replica!vars)
<1> SUFFICES ASSUME ReplicationInv, ReplicationInv', [ReplicationNext]_allVars
             PROVE  Replica!Next \/ UNCHANGED Replica!vars
  OBVIOUS
<1>0. AccountInv /\ GoodMap(user_map) /\ DOMAIN user_map \subseteq UserID
  BY DEF ReplicationInv, AccountInv, GoodMap
<1>10. ASSUME UNCHANGED <<players, snapshots, user_map>>
      PROVE  UNCHANGED Replica!vars
  <2>1. GetFromId(TheWatcher, TheUser)' = GetFromId(TheWatcher, TheUser)
    BY <1>10 DEF GetFromId
  <2> QED
    BY <1>10, <2>1, SameReplica
<1>11. ASSUME NEW u \in DOMAIN user_map, MapEvolves(user_map, user_map', u), Published,
             players' = players
      PROVE  Replica!Next \/ UNCHANGED Replica!vars
  <2>1. DOMAIN user_map' = DOMAIN user_map \cup {u}
    BY <1>11 DEF MapEvolves
  <2> QED
    BY <1>11, <2>1, HandlerRefines DEF Replica!Next
<1>1. ASSUME NEW k \in Keys, NEW ip \in Addresses, NEW port \in Addresses, PublicKey(k, ip, port)
      PROVE  Replica!Next \/ UNCHANGED Replica!vars
  <2> DEFINE u == max_user_id + 1
  <2>1. MapEvolves(user_map, user_map', u)
    BY <1>0, <1>1, PublicKeyEvolves DEF PublicKey
  <2>2. DOMAIN user_map' = DOMAIN user_map \cup {u}
    BY <2>1 DEF MapEvolves
  <2>3. u > max_user_id
    BY <1>0 DEF AccountInv, TypeOK
  <2>4. Published /\ players' = players
    BY <1>1 DEF PublicKey, replicas
  <2> HIDE DEF u
  <2> QED
    BY <2>2, <2>3, <2>4, HandlerRefines DEF Replica!Next
<1>2. ASSUME NEW u \in DOMAIN user_map, NEW data \in TextData, InitializeData(u, data)
      PROVE  Replica!Next \/ UNCHANGED Replica!vars
  <2>1. MapEvolves(user_map, user_map', u)
    BY <1>0, <1>2, LoadEvolves DEF InitializeData, ServerReceiveAccountInitializeData
  <2> QED
    BY <1>2, <1>11, <2>1 DEF InitializeData
<1>3. ASSUME NEW u \in DOMAIN user_map, UpdateProperty(u)
      PROVE  Replica!Next \/ UNCHANGED Replica!vars
  <2>1. MapEvolves(user_map, user_map', u)
    BY <1>0, <1>3, UpdateEvolves DEF UpdateProperty
  <2> QED
    BY <1>3, <1>11, <2>1 DEF UpdateProperty
<1>4. ASSUME NEW u \in online, FatalConnectionError(u)
      PROVE  Replica!Next \/ UNCHANGED Replica!vars
  <2>1. u \in DOMAIN user_map /\ u \in UserID
    BY <1>0 DEF AccountInv, OnlineAccountKept
  <2>2. 0 \in Value \ {NoValue}
    BY TextAssumption DEF Value
  <2>3. user_map' = Set(user_map, u, "LOGIN", 0)
    BY <1>4 DEF FatalConnectionError, UserFatalConnectionError, LogOut
  <2>4. MapEvolves(user_map, user_map', u)
    BY <1>0, <2>1, <2>2, <2>3, SharedIsProperty, SetEvolves
  <2> QED
    BY <1>4, <1>11, <2>1, <2>4 DEF FatalConnectionError
<1>5. ASSUME NEW u \in removing \cup erasing, RemovalThread(u)
      PROVE  Replica!Next \/ UNCHANGED Replica!vars
  BY <1>5, RemovalRefines DEF Replica!Next
<1>6. ASSUME NEW w \in Watchers, Join(w) \/ PatchRequested(w) \/ ReceiveNotify(w)
      PROVE  Replica!Next \/ UNCHANGED Replica!vars
  BY <1>6, <1>10 DEF Join, PatchRequested, ReceiveNotify, vars
<1>7. ASSUME NEW w \in Watchers, ReceivePatch(w)
      PROVE  Replica!Next \/ UNCHANGED Replica!vars
  BY <1>7, ReceiveRefines DEF Replica!Next
<1>8. ASSUME PatchStarted \/ PatchSent
      PROVE  Replica!Next \/ UNCHANGED Replica!vars
  BY <1>8, <1>10 DEF PatchStarted, PatchSent, vars
<1>9. CASE UNCHANGED allVars
  BY <1>9, <1>10 DEF allVars, vars, replicas
<1> QED
  BY <1>1, <1>2, <1>3, <1>4, <1>5, <1>6, <1>7, <1>8, <1>9 DEF ReplicationNext

(* What a client, any client, shows of a user, any user, is the account as *)
(* some handler of the server left it, never a mixture and never set back, *)
(* unless the account was erased in the middle of a patch: the handlers of *)
(* server/main.cpp and PlayerManager together implement SnapshotReplica.   *)
THEOREM PlayersImplementReplica == ReplicationSpec => PlayersAreSnapshots
<1>1. ReplicationInit => Replica!Init
  BY ReplicaInit
<1>2. ReplicationInv /\ ReplicationInv' /\ [ReplicationNext]_allVars => [Replica!Next]_(Replica!vars)
  BY ReplicaNext
<1> QED
  BY ReplicationInvariant, <1>1, <1>2, PTL DEF ReplicationSpec, PlayersAreSnapshots, Replica!Spec

=============================================================================
