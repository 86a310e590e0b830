---------------------------- MODULE AccountProofs ---------------------------
(***************************************************************************)
(* Proofs about the server's accounts, for any number of users, texts and  *)
(* revisions.  The argument: a handler only ever lets an account evolve,   *)
(* that is, whatever it changes it stores at a revision above all that     *)
(* existed; copies therefore agree with the account on everything that is  *)
(* not newer than the copy.                                                *)
(***************************************************************************)
EXTENDS AccountProperties, TLAPS

\* No property is newer than the account; one that was never stored is absent,
\* and the key, which is not shared, is stored without a revision.
Good(a) ==
    /\ a \in AccountType
    /\ \A p \in Property : a.revision[p] <= a.REVISION
    /\ \A p \in SharedProperty : a.revision[p] = 0 => a.value[p] = NoValue
    /\ a.revision["PUBLIC_KEY"] = 0

GoodMap(um) ==
    /\ um \in [DOMAIN um -> AccountType]
    /\ DOMAIN um \subseteq UserID
    /\ \A u \in DOMAIN um : Good(um[u])

\* b is a later state of account a.
Evolves(a, b) ==
    /\ a.REVISION <= b.REVISION
    /\ \A p \in SharedProperty :
          /\ \/ b.value[p] = a.value[p] /\ b.revision[p] = a.revision[p]
             \/ b.revision[p] > a.REVISION
          /\ a.value[p] # NoValue => b.value[p] # NoValue

\* wm is um after a handler worked on the account of u.
MapEvolves(um, wm, u) ==
    /\ GoodMap(wm)
    /\ DOMAIN wm = DOMAIN um \cup {u}
    /\ \A x \in DOMAIN um : Evolves(um[x], wm[x]) /\ (x # u => wm[x] = um[x])

SameLogin(um, wm, u) ==
    AccountOf(wm, u).value["LOGIN"] = AccountOf(um, u).value["LOGIN"]

(* Evolution is transitive along the calls one handler makes.              *)
LEMMA EvolutionTransitive ==
    ASSUME NEW um, NEW vm, NEW wm, NEW u \in UserID, GoodMap(um),
           MapEvolves(um, vm, u), MapEvolves(vm, wm, u)
    PROVE  MapEvolves(um, wm, u)
<1>1. \A x \in DOMAIN um : Evolves(um[x], wm[x])
  <2> SUFFICES ASSUME NEW x \in DOMAIN um PROVE Evolves(um[x], wm[x])
    OBVIOUS
  <2>1. x \in DOMAIN vm /\ x \in DOMAIN wm
    BY DEF MapEvolves
  <2>2. um[x] \in AccountType /\ vm[x] \in AccountType /\ wm[x] \in AccountType
    BY <2>1 DEF MapEvolves, GoodMap
  <2>3. Evolves(um[x], vm[x]) /\ Evolves(vm[x], wm[x])
    BY <2>1 DEF MapEvolves
  <2> QED
    BY <2>2, <2>3 DEF Evolves, AccountType, SharedProperty
<1> QED
  BY <1>1 DEF MapEvolves

(* Storing one good account leaves the map good.                           *)
LEMMA PutGood ==
    ASSUME NEW um, NEW u \in UserID, NEW a, GoodMap(um), Good(a),
           u \in DOMAIN um => Evolves(um[u], a)
    PROVE  MapEvolves(um, PutAccount(um, u, a), u)
<1> DEFINE wm == PutAccount(um, u, a)
<1>1. DOMAIN wm = DOMAIN um \cup {u} /\ wm[u] = a
  BY DEF PutAccount
<1>2. \A x \in DOMAIN um : x # u => wm[x] = um[x]
  BY DEF PutAccount
<1>3. GoodMap(wm)
  <2>1. \A x \in DOMAIN wm : wm[x] \in AccountType /\ Good(wm[x])
    BY <1>1, <1>2 DEF GoodMap, Good
  <2>2. DOMAIN wm \subseteq UserID
    BY <1>1 DEF GoodMap
  <2>3. wm = [x \in DOMAIN wm |-> wm[x]]
    BY <1>1 DEF PutAccount
  <2> QED
    BY <2>1, <2>2, <2>3 DEF GoodMap
<1>4. \A x \in DOMAIN um : Evolves(um[x], wm[x])
  <2> SUFFICES ASSUME NEW x \in DOMAIN um PROVE Evolves(um[x], wm[x])
    OBVIOUS
  <2>1. CASE x = u
    BY <2>1, <1>1
  <2>2. CASE x # u
    BY <2>2, <1>2 DEF Evolves, GoodMap, Good, AccountType
  <2> QED
    BY <2>1, <2>2
<1> QED
  BY <1>1, <1>2, <1>3, <1>4 DEF MapEvolves

(* What a map reads for an id, present or not, is a good account.          *)
LEMMA AccountOfGood ==
    ASSUME NEW um, NEW u, GoodMap(um)
    PROVE  Good(AccountOf(um, u))
<1>1. CASE u \in DOMAIN um
  BY <1>1 DEF AccountOf, GoodMap
<1>2. CASE u \notin DOMAIN um
  <2>1. NoAccount \in AccountType
    BY DEF NoAccount, AccountType, Value
  <2>2. /\ \A p \in Property : NoAccount.revision[p] <= NoAccount.REVISION
        /\ \A p \in Property : NoAccount.value[p] = NoValue
        /\ NoAccount.revision["PUBLIC_KEY"] = 0
    BY DEF NoAccount, Property
  <2>3. SharedProperty \subseteq Property
    BY DEF SharedProperty
  <2> QED
    BY <1>2, <2>1, <2>2, <2>3 DEF AccountOf, Good
<1> QED
  BY <1>1, <1>2

(* Account::Set with revision = true stores the value, at a revision above *)
(* all others, and touches nothing else.                                   *)
LEMMA SetEvolves ==
    ASSUME NEW um, NEW u \in UserID, NEW p \in SharedProperty,
           NEW v \in Value \ {NoValue}, GoodMap(um)
    PROVE  /\ MapEvolves(um, Set(um, u, p, v), u)
           /\ AccountOf(Set(um, u, p, v), u).value[p] = v
           /\ p # "LOGIN" => SameLogin(um, Set(um, u, p, v), u)
<1> DEFINE a == AccountOf(um, u)
           b == [value    |-> [a.value EXCEPT ![p] = v],
                 revision |-> [a.revision EXCEPT ![p] = a.REVISION + 1],
                 REVISION |-> a.REVISION + 1]
<1>0. u # 0 /\ p \in Property
  BY DEF UserID, SharedProperty
<1>1. Good(a)
  BY AccountOfGood
<1>2. CASE a.value[p] = v
  <2>1. Set(um, u, p, v) = um
    BY <1>2 DEF Set
  <2>2. u \in DOMAIN um
    <3> SUFFICES ASSUME u \notin DOMAIN um PROVE FALSE
      OBVIOUS
    <3>1. a.value[p] = NoValue
      BY <1>0 DEF AccountOf, NoAccount
    <3> QED
      BY <3>1, <1>2
  <2>3. \A x \in DOMAIN um : Evolves(um[x], um[x])
    BY DEF Evolves, GoodMap, Good, AccountType
  <2> QED
    BY <1>2, <2>1, <2>2, <2>3 DEF MapEvolves, SameLogin
<1>3. CASE a.value[p] # v
  <2>1. Set(um, u, p, v) = PutAccount(um, u, b)
    BY <1>3, <1>0 DEF Set
  <2>2. b \in AccountType
    BY <1>1, <1>0 DEF Good, AccountType
  <2>3. \A q \in Property : b.revision[q] <= b.REVISION
    BY <1>1, <1>0 DEF Good, AccountType
  <2>4. u \in DOMAIN um => Evolves(um[u], b)
    <3> SUFFICES ASSUME u \in DOMAIN um PROVE Evolves(a, b)
      BY DEF AccountOf
    <3> QED
      BY <1>0, <1>1 DEF Evolves, Good, AccountType, SharedProperty
  <2>a. /\ \A q \in SharedProperty : b.revision[q] = 0 => b.value[q] = NoValue
        /\ b.revision["PUBLIC_KEY"] = 0
    BY <1>1, <1>0 DEF Good, AccountType, SharedProperty, Property
  <2>5. MapEvolves(um, PutAccount(um, u, b), u)
    BY <2>2, <2>3, <2>4, <2>a, PutGood DEF Good
  <2>6. AccountOf(PutAccount(um, u, b), u) = b
    BY DEF AccountOf, PutAccount
  <2>7. b.value[p] = v /\ (p # "LOGIN" => b.value["LOGIN"] = a.value["LOGIN"])
    BY <1>0, <1>1 DEF Good, AccountType, Property
  <2> QED
    BY <2>1, <2>5, <2>6, <2>7 DEF SameLogin
<1> QED
  BY <1>2, <1>3

(* A handler that stores nothing.                                          *)
LEMMA IdleEvolves ==
    ASSUME NEW um, NEW u \in UserID, u \in DOMAIN um, GoodMap(um)
    PROVE  MapEvolves(um, um, u) /\ SameLogin(um, um, u)
<1>1. \A x \in DOMAIN um : Evolves(um[x], um[x])
  BY DEF Evolves, GoodMap, AccountType
<1>2. DOMAIN um = DOMAIN um \cup {u}
  OBVIOUS
<1> QED
  BY <1>1, <1>2 DEF MapEvolves, SameLogin

(* The three text setters, which may reject their argument.                *)
LEMMA TextSettersEvolve ==
    ASSUME NEW um, NEW u \in UserID, u \in DOMAIN um, GoodMap(um),
           NEW t \in Text \cup {BadText}
    PROVE  /\ MapEvolves(um, SetUserName(um, u, t), u)
           /\ MapEvolves(um, SetUserModelName(um, u, t), u)
           /\ MapEvolves(um, SetUserTrip(um, u, t), u)
           /\ SameLogin(um, SetUserName(um, u, t), u)
           /\ SameLogin(um, SetUserModelName(um, u, t), u)
           /\ SameLogin(um, SetUserTrip(um, u, t), u)
<1>1. MapEvolves(um, um, u) /\ SameLogin(um, um, u)
  BY IdleEvolves
<1>2. t \in Text => t \in Value \ {NoValue} /\ GetTrip(t) \in Value \ {NoValue}
  BY TextAssumption DEF Value
<1>3. EmptyText \in Value \ {NoValue}
  BY TextAssumption DEF Value
<1>4. {"NAME", "MODEL_NAME", "TRIP"} \subseteq SharedProperty
  BY DEF SharedProperty, Property
<1>5. \A p \in {"NAME", "MODEL_NAME", "TRIP"}, v \in Value \ {NoValue} :
         MapEvolves(um, Set(um, u, p, v), u) /\ SameLogin(um, Set(um, u, p, v), u)
  BY <1>4, SetEvolves
<1> QED
  BY <1>1, <1>2, <1>3, <1>5 DEF SetUserName, SetUserModelName, SetUserTrip

LEMMA LoadEvolves ==
    ASSUME NEW um, NEW u \in UserID, u \in DOMAIN um, GoodMap(um),
           NEW data \in TextData
    PROVE  /\ MapEvolves(um, LoadInitializeData(um, u, data), u)
           /\ SameLogin(um, LoadInitializeData(um, u, data), u)
<1> DEFINE named == IF "NAME" \in DOMAIN data
                    THEN SetUserName(um, u, data["NAME"]) ELSE um
           modeled == IF "MODEL_NAME" \in DOMAIN data
                      THEN SetUserModelName(named, u, data["MODEL_NAME"]) ELSE named
           loaded == IF "TRIP" \in DOMAIN data
                     THEN SetUserTrip(modeled, u, data["TRIP"]) ELSE modeled
<1>1. \A p \in DOMAIN data : data[p] \in Text \cup {BadText}
  BY DEF TextData
<1>2. \A vm : GoodMap(vm) /\ u \in DOMAIN vm => MapEvolves(vm, vm, u) /\ SameLogin(vm, vm, u)
  BY IdleEvolves
<1>3. MapEvolves(um, named, u) /\ SameLogin(um, named, u)
  BY <1>1, <1>2, TextSettersEvolve
<1>4. GoodMap(named) /\ u \in DOMAIN named
  BY <1>3 DEF MapEvolves
<1>5. MapEvolves(named, modeled, u) /\ SameLogin(named, modeled, u)
  <2> HIDE DEF named
  <2> QED
    BY <1>1, <1>2, <1>4, TextSettersEvolve
<1>6. GoodMap(modeled) /\ u \in DOMAIN modeled
  BY <1>5 DEF MapEvolves
<1>7. MapEvolves(modeled, loaded, u) /\ SameLogin(modeled, loaded, u)
  <2> HIDE DEF modeled
  <2> QED
    BY <1>1, <1>2, <1>6, TextSettersEvolve
<1>8. MapEvolves(um, loaded, u) /\ SameLogin(um, loaded, u)
  <2> HIDE DEF named, modeled, loaded
  <2>1. MapEvolves(um, modeled, u)
    BY <1>3, <1>5, EvolutionTransitive
  <2>2. MapEvolves(um, loaded, u)
    BY <2>1, <1>7, EvolutionTransitive
  <2> QED
    BY <2>2, <1>3, <1>5, <1>7 DEF SameLogin
<1> QED
  BY <1>8 DEF LoadInitializeData

(* Registering a key under a fresh id adds one good account.               *)
LEMMA RegisterEvolves ==
    ASSUME NEW um, NEW u \in UserID, u \notin DOMAIN um, GoodMap(um), NEW k \in Keys
    PROVE  /\ MapEvolves(um, RegisterPublicKey(um, u, k), u)
           /\ AccountOf(RegisterPublicKey(um, u, k), u).value["NAME"] # NoValue
<1> DEFINE named == SetUserName(um, u, DefaultName)
           keyed == SetPublicKey(named, u, k)
           final == SetRevision(keyed, u, 1)
           b == [keyed[u] EXCEPT !.REVISION = 1]
<1>0. u # 0 /\ "NAME" \in SharedProperty /\ "PUBLIC_KEY" \in Property
  BY DEF UserID, SharedProperty, Property
<1>1. DefaultName \in Value \ {NoValue} /\ k \in Value
  BY TextAssumption DEF Value
<1>2. named = Set(um, u, "NAME", DefaultName)
  BY TextAssumption DEF SetUserName
<1>3. MapEvolves(um, named, u) /\ AccountOf(named, u).value["NAME"] # NoValue
  BY <1>0, <1>1, <1>2, SetEvolves
<1>4. named[u].REVISION = 1
  <2>1. AccountOf(um, u) = NoAccount
    BY DEF AccountOf
  <2>2. NoAccount.value["NAME"] # DefaultName /\ NoAccount.REVISION = 0
    BY <1>1 DEF NoAccount, Property
  <2> DEFINE a == [value    |-> [NoAccount.value EXCEPT !["NAME"] = DefaultName],
                     revision |-> [NoAccount.revision EXCEPT !["NAME"] = 0 + 1],
                     REVISION |-> 0 + 1]
  <2>4. named = PutAccount(um, u, a)
    BY <1>0, <1>2, <2>1, <2>2 DEF Set
  <2>5. named[u] = a
    BY <2>4 DEF PutAccount
  <2> QED
    BY <2>5
<1>5. GoodMap(named) /\ u \in DOMAIN named /\ Good(named[u]) /\ named[u] \in AccountType
  BY <1>3 DEF MapEvolves, GoodMap, Good
<1> HIDE DEF named
<1>6. MapEvolves(named, keyed, u) /\ keyed[u].REVISION = 1
  <2> DEFINE a == [named[u] EXCEPT !.value["PUBLIC_KEY"] = k]
  <2>1. keyed = PutAccount(named, u, a)
    BY <1>0, <1>5 DEF SetPublicKey, AccountOf
  <2>2. Good(a) /\ Evolves(named[u], a) /\ a.REVISION = 1
    BY <1>0, <1>1, <1>4, <1>5 DEF Good, Evolves, AccountType, SharedProperty
  <2>3. keyed[u] = a
    BY <2>1 DEF PutAccount
  <2> HIDE DEF a, keyed
  <2>4. MapEvolves(named, PutAccount(named, u, a), u)
    BY <1>5, <2>2, PutGood
  <2> QED
    BY <2>1, <2>2, <2>3, <2>4
<1>7. GoodMap(keyed) /\ u \in DOMAIN keyed /\ Good(keyed[u]) /\ keyed[u] \in AccountType
  BY <1>6 DEF MapEvolves, GoodMap, Good
<1> HIDE DEF keyed
<1>8. MapEvolves(keyed, final, u)
  <2>1. final = PutAccount(keyed, u, b)
    BY <1>0, <1>7 DEF SetRevision, AccountOf
  <2>2. Good(b) /\ Evolves(keyed[u], b)
    BY <1>6, <1>7 DEF Good, Evolves, AccountType, SharedProperty
  <2> QED
    BY <1>7, <2>1, <2>2, PutGood
<1>9. MapEvolves(um, final, u) /\ AccountOf(final, u).value["NAME"] # NoValue
  <2> HIDE DEF final
  <2>1. MapEvolves(um, keyed, u)
    BY <1>3, <1>6, EvolutionTransitive
  <2>2. MapEvolves(um, final, u)
    BY <2>1, <1>8, EvolutionTransitive
  <2>3. Evolves(named[u], keyed[u]) /\ Evolves(keyed[u], final[u]) /\ u \in DOMAIN final
    BY <1>5, <1>6, <1>7, <1>8 DEF MapEvolves
  <2>4. named[u].value["NAME"] # NoValue
    BY <1>3, <1>5 DEF AccountOf
  <2> QED
    BY <1>0, <2>2, <2>3, <2>4 DEF Evolves, AccountOf
<1> QED
  BY <1>9 DEF RegisterPublicKey, named, keyed

-----------------------------------------------------------------------------
(* The inductive invariant.                                                *)

\* A copy agrees with its account on all that is not newer than the copy.
CopyAgrees(c) ==
    c.user \in DOMAIN user_map =>
        LET a == user_map[c.user]
        IN  /\ c.revision <= a.REVISION
            /\ \A p \in SharedProperty : a.revision[p] <= c.revision => a.value[p] = c.value[p]

IdsGivenOut ==
    /\ \A u \in DOMAIN user_map \cup removing \cup erasing : u <= max_user_id
    /\ \A c \in copies : c.user <= max_user_id

AccountInv ==
    /\ TypeOK
    /\ GoodMap(user_map)
    /\ IdsGivenOut
    /\ (online \cup ghosts) \cap (removing \cup erasing) = {}
    /\ online \cap ghosts = {}
    /\ OnlineAccountKept
    /\ LoginMatchesSession
    /\ \A c \in copies : CopyAgrees(c)

LEMMA InitAccount == Init => AccountInv
BY DEF Init, AccountInv, TypeOK, GoodMap, IdsGivenOut, OnlineAccountKept,
       LoginMatchesSession, CopyAgrees

(* A copy survives whatever a handler does to an account.                  *)
LEMMA CopySurvives ==
    ASSUME GoodMap(user_map), NEW u \in UserID, MapEvolves(user_map, user_map', u),
           NEW c \in CopyType, CopyAgrees(c),
           u \in DOMAIN user_map \/ c.user # u
    PROVE  CopyAgrees(c)'
<1> SUFFICES ASSUME c.user \in DOMAIN user_map'
             PROVE  LET a == user_map'[c.user]
                    IN  /\ c.revision <= a.REVISION
                        /\ \A p \in SharedProperty :
                              a.revision[p] <= c.revision => a.value[p] = c.value[p]
  BY DEF CopyAgrees
<1> DEFINE a == user_map[c.user]
           b == user_map'[c.user]
<1>1. c.user \in DOMAIN user_map
  BY DEF MapEvolves
<1>2. Evolves(a, b)
  BY <1>1 DEF MapEvolves
<1>3. a \in AccountType /\ b \in AccountType /\ c \in CopyType
  BY <1>1 DEF MapEvolves, GoodMap
<1>5. \A p \in SharedProperty : p \in Property
  BY DEF SharedProperty
<1> QED
  BY <1>1, <1>2, <1>3, <1>5 DEF CopyAgrees, Evolves, AccountType, CopyType

LEMMA CopiesSurvive ==
    ASSUME AccountInv, NEW u \in UserID, MapEvolves(user_map, user_map', u),
           u \in DOMAIN user_map \/ \A c \in copies : c.user # u
    PROVE  \A c \in copies : CopyAgrees(c)'
<1> SUFFICES ASSUME NEW c \in copies PROVE CopyAgrees(c)'
  OBVIOUS
<1>1. GoodMap(user_map) /\ c \in CopyType /\ CopyAgrees(c)
  BY DEF AccountInv, TypeOK
<1> QED
  BY <1>1, CopySurvives

(* A client that registers gets a fresh id and an account that is logged   *)
(* in and has a name; the other accounts stay.                             *)
LEMMA PublicKeyEvolves ==
    ASSUME AccountInv, NEW k \in Keys, NEW ip \in Addresses, NEW port \in Addresses,
           ServerReceivePublicKey(k, ip, port)
    PROVE  LET u == max_user_id + 1
           IN  /\ u \in UserID /\ u \notin DOMAIN user_map /\ u \notin removing \cup erasing
               /\ \A c \in copies : c.user # u
               /\ MapEvolves(user_map, user_map', u)
               /\ AccountOf(user_map', u).value["LOGIN"] = 1
               /\ AccountOf(user_map', u).value["NAME"] # NoValue
               /\ max_user_id' = u /\ SessionGets(u)
               /\ UNCHANGED <<removing, erasing, copies>>
<1> USE DEF AccountInv
<1> DEFINE u == max_user_id + 1
           registered == RegisterPublicKey(user_map, u, k)
           loggedIn   == LogIn(registered, u)
           addressed  == Set(loggedIn, u, "IP_ADDRESS", ip)
           ported     == Set(addressed, u, "UDP_PORT", port)
<1>1. u \in UserID /\ u \notin DOMAIN user_map /\ u \notin removing \cup erasing
      /\ \A c \in copies : c.user # u
  <2>1. u \in Nat /\ u > max_user_id /\ u # 0
    BY DEF TypeOK
  <2>2. \A c \in copies : c.user \in Nat
    BY DEF TypeOK, CopyType, UserID
  <2> QED
    BY <2>1, <2>2 DEF IdsGivenOut, TypeOK, UserID
<1>2. {"LOGIN", "IP_ADDRESS", "UDP_PORT"} \subseteq SharedProperty
  BY DEF SharedProperty, Property
<1>3. {1, ip, port} \subseteq Value \ {NoValue}
  BY TextAssumption DEF Value
<1>4. MapEvolves(user_map, registered, u) /\ AccountOf(registered, u).value["NAME"] # NoValue
  BY <1>1, RegisterEvolves
<1> HIDE DEF registered
<1>5. MapEvolves(registered, loggedIn, u) /\ AccountOf(loggedIn, u).value["LOGIN"] = 1
  <2>1. GoodMap(registered)
    BY <1>4 DEF MapEvolves
  <2>2. loggedIn = Set(registered, u, "LOGIN", 1)
    BY DEF LogIn
  <2> HIDE DEF loggedIn
  <2> QED
    BY <1>1, <1>2, <1>3, <2>1, <2>2, SetEvolves
<1> HIDE DEF loggedIn
<1>6. MapEvolves(loggedIn, addressed, u) /\ SameLogin(loggedIn, addressed, u)
  <2>1. GoodMap(loggedIn)
    BY <1>5 DEF MapEvolves
  <2> QED
    BY <1>1, <1>2, <1>3, <2>1, SetEvolves
<1> HIDE DEF addressed
<1>7. MapEvolves(addressed, ported, u) /\ SameLogin(addressed, ported, u)
  <2>1. GoodMap(addressed)
    BY <1>6 DEF MapEvolves
  <2> QED
    BY <1>1, <1>2, <1>3, <2>1, SetEvolves
<1> HIDE DEF ported
<1>8. user_map' = ported /\ max_user_id' = u /\ SessionGets(u)
      /\ UNCHANGED <<removing, erasing, copies>>
  BY DEF ServerReceivePublicKey, NextUserId, registered, loggedIn, addressed, ported
<1>9. MapEvolves(user_map, ported, u)
  <2>1. MapEvolves(user_map, loggedIn, u)
    BY <1>1, <1>4, <1>5, EvolutionTransitive
  <2>2. MapEvolves(user_map, addressed, u)
    BY <1>1, <2>1, <1>6, EvolutionTransitive
  <2> QED
    BY <1>1, <2>2, <1>7, EvolutionTransitive
<1>10. AccountOf(ported, u).value["LOGIN"] = 1
  BY <1>5, <1>6, <1>7 DEF SameLogin
<1>11. AccountOf(ported, u).value["NAME"] # NoValue
  <2>1. /\ u \in DOMAIN registered /\ u \in DOMAIN loggedIn /\ u \in DOMAIN addressed
        /\ u \in DOMAIN ported
    BY <1>4, <1>5, <1>6, <1>7 DEF MapEvolves
  <2>2. /\ Evolves(registered[u], loggedIn[u]) /\ Evolves(loggedIn[u], addressed[u])
        /\ Evolves(addressed[u], ported[u])
    BY <2>1, <1>5, <1>6, <1>7 DEF MapEvolves
  <2>3. "NAME" \in SharedProperty /\ registered[u].value["NAME"] # NoValue
    BY <1>4, <2>1 DEF AccountOf, SharedProperty, Property
  <2> QED
    BY <2>1, <2>2, <2>3 DEF Evolves, AccountOf
<1> QED
  BY <1>1, <1>8, <1>9, <1>10, <1>11

(* An update of a property of an account that exists.                      *)
LEMMA UpdateEvolves ==
    ASSUME AccountInv, NEW u \in DOMAIN user_map, Update(u)
    PROVE  MapEvolves(user_map, user_map', u) /\ SameLogin(user_map, user_map', u)
<1>0. u \in UserID /\ GoodMap(user_map)
  BY DEF AccountInv, TypeOK
<1>1. ASSUME NEW p \in {"NAME", "TRIP", "MODEL_NAME"}, NEW t \in Text \cup {BadText},
             ServerUpdateAccountProperty(u, p, t)
      PROVE  MapEvolves(user_map, user_map', u) /\ SameLogin(user_map, user_map', u)
  <2>1. \/ user_map' = SetUserName(user_map, u, t)
        \/ user_map' = SetUserTrip(user_map, u, t)
        \/ user_map' = SetUserModelName(user_map, u, t)
    BY <1>1 DEF ServerUpdateAccountProperty
  <2> QED
    BY <2>1, <1>0, TextSettersEvolve
<1>2. ASSUME NEW c \in Channels, ServerUpdateAccountProperty(u, "CHANNEL", c)
      PROVE  MapEvolves(user_map, user_map', u) /\ SameLogin(user_map, user_map', u)
  <2>1. user_map' = Set(user_map, u, "CHANNEL", c)
    BY <1>2 DEF ServerUpdateAccountProperty, SetUserChannel
  <2>2. c \in Value \ {NoValue} /\ "CHANNEL" \in SharedProperty
    BY TextAssumption DEF Value, SharedProperty, Property
  <2> QED
    BY <2>1, <2>2, <1>0, SetEvolves
<1> QED
  BY <1>1, <1>2 DEF Update

LEMMA NextAccount == AccountInv /\ [Next]_vars => AccountInv'
<1> USE DEF AccountInv
<1> SUFFICES ASSUME AccountInv, [Next]_vars PROVE AccountInv'
  OBVIOUS
<1>0. max_user_id \in Nat /\ online \subseteq UserID /\ ghosts \subseteq UserID /\ removing \subseteq UserID
      /\ erasing \subseteq UserID /\ DOMAIN user_map \subseteq UserID
  BY DEF TypeOK
\* Handlers of an existing session: the account evolves, its login stays.
<1>a. ASSUME NEW u \in DOMAIN user_map, MapEvolves(user_map, user_map', u),
             SameLogin(user_map, user_map', u),
             UNCHANGED <<max_user_id, online, ghosts, removing, erasing, copies>>
      PROVE  AccountInv'
  <2>1. u \in UserID /\ DOMAIN user_map' = DOMAIN user_map
    BY <1>0, <1>a DEF MapEvolves
  <2>2. \A c \in copies : CopyAgrees(c)'
    BY <2>1, <1>a, CopiesSurvive
  <2>3. LoginMatchesSession'
    <3> SUFFICES ASSUME NEW x \in DOMAIN user_map
                 PROVE  user_map'[x].value["LOGIN"] = 1 <=> x \in online \cup ghosts
      BY <2>1, <1>a DEF LoginMatchesSession
    <3>1. user_map'[x].value["LOGIN"] = user_map[x].value["LOGIN"]
      BY <2>1, <1>a DEF MapEvolves, SameLogin, AccountOf
    <3> QED
      BY <3>1 DEF LoginMatchesSession
  <2>4. TypeOK' /\ GoodMap(user_map')
    BY <2>1, <1>a DEF TypeOK, MapEvolves, GoodMap
  <2> QED
    BY <2>1, <2>2, <2>3, <2>4, <1>a DEF IdsGivenOut, OnlineAccountKept
<1>1. ASSUME NEW k \in Keys, NEW ip \in Addresses, NEW port \in Addresses,
             ServerReceivePublicKey(k, ip, port)
      PROVE  AccountInv'
  <2> DEFINE u == max_user_id + 1
             ported == user_map'
  <2>1. u \in UserID /\ u \notin DOMAIN user_map /\ u \notin removing \cup erasing
        /\ \A c \in copies : c.user # u
    BY <1>1, PublicKeyEvolves
  <2>7. max_user_id' = u /\ SessionGets(u) /\ UNCHANGED <<removing, erasing, copies>>
    BY <1>1, PublicKeyEvolves
  \* Whatever the session was, the fresh id is its, or nobody's for good.
  <2>8. /\ max_user_id' = u /\ UNCHANGED <<removing, erasing, copies>>
        /\ online' \cup ghosts' = online \cup ghosts \cup {u}
        /\ online' \cap ghosts' = {}
    <3>1. u \notin online \cup ghosts
      BY <2>1 DEF OnlineAccountKept
    <3>2. CASE online' = online \cup {u} /\ UNCHANGED ghosts
      BY <3>1, <3>2, <2>7
    <3>3. CASE ghosts' = ghosts \cup {u} /\ UNCHANGED online
      BY <3>1, <3>3, <2>7
    <3>4. ASSUME NEW v \in online,
                 online' = (online \ {v}) \cup {u}, ghosts' = ghosts \cup {v}
          PROVE  /\ online' \cup ghosts' = online \cup ghosts \cup {u}
                 /\ online' \cap ghosts' = {}
      BY <3>1, <3>4
    <3> QED
      BY <3>2, <3>3, <3>4, <2>7 DEF SessionGets
  <2>9. MapEvolves(user_map, ported, u)
    BY <1>1, PublicKeyEvolves
  <2>10. AccountOf(ported, u).value["LOGIN"] = 1
    BY <1>1, PublicKeyEvolves
  <2>11. \A c \in copies : CopyAgrees(c)'
    BY <2>1, <2>8, <2>9, CopiesSurvive
  <2>12. LoginMatchesSession'
    <3> SUFFICES ASSUME NEW x \in DOMAIN ported
                 PROVE  ported[x].value["LOGIN"] = 1 <=> x \in online \cup ghosts \cup {u}
      BY <2>8 DEF LoginMatchesSession
    <3>1. CASE x = u
      BY <3>1, <2>10 DEF AccountOf
    <3>2. CASE x # u
      BY <3>2, <2>9 DEF MapEvolves, LoginMatchesSession
    <3> QED
      BY <3>1, <3>2
  <2>13. DOMAIN ported = DOMAIN user_map \cup {u} /\ GoodMap(ported)
    BY <2>9 DEF MapEvolves
  <2>14. TypeOK'
    BY <2>1, <2>8, <2>13, <1>0 DEF TypeOK, GoodMap, UserID
  <2>15. IdsGivenOut'
    BY <2>8, <2>13, <1>0 DEF IdsGivenOut, TypeOK, CopyType, UserID
  <2> QED
    BY <2>1, <2>8, <2>11, <2>12, <2>13, <2>14, <2>15 DEF OnlineAccountKept
<1>2. ASSUME NEW u \in DOMAIN user_map, NEW data \in TextData,
             ServerReceiveAccountInitializeData(u, data)
      PROVE  AccountInv'
  <2>1. MapEvolves(user_map, user_map', u) /\ SameLogin(user_map, user_map', u)
    BY <1>0, <1>2, LoadEvolves DEF ServerReceiveAccountInitializeData
  <2> QED
    BY <2>1, <1>2, <1>a DEF ServerReceiveAccountInitializeData
<1>3. ASSUME NEW u \in DOMAIN user_map, Update(u)
      PROVE  AccountInv'
  <2>1. MapEvolves(user_map, user_map', u) /\ SameLogin(user_map, user_map', u)
    BY <1>3, UpdateEvolves
  <2>2. UNCHANGED <<max_user_id, online, ghosts, removing, erasing, copies>>
    BY <1>3 DEF Update, ServerUpdateAccountProperty
  <2> QED
    BY <2>1, <2>2, <1>a
<1>4. ASSUME NEW u \in online, UserFatalConnectionError(u)
      PROVE  AccountInv'
  <2>1. u \in UserID /\ u \in DOMAIN user_map
    BY <1>0 DEF OnlineAccountKept
  <2>2. 0 \in Value \ {NoValue} /\ "LOGIN" \in SharedProperty
    BY TextAssumption DEF Value, SharedProperty, Property
  <2>3. user_map' = Set(user_map, u, "LOGIN", 0) /\ online' = online \ {u}
        /\ removing' = removing \cup {u} /\ UNCHANGED <<max_user_id, ghosts, erasing, copies>>
    BY <1>4 DEF UserFatalConnectionError, LogOut
  <2>4. MapEvolves(user_map, user_map', u) /\ AccountOf(user_map', u).value["LOGIN"] = 0
    BY <2>1, <2>2, <2>3, SetEvolves
  <2>5. DOMAIN user_map' = DOMAIN user_map /\ GoodMap(user_map')
    BY <2>1, <2>4 DEF MapEvolves
  <2>6. \A c \in copies : CopyAgrees(c)'
    BY <2>1, <2>4, CopiesSurvive
  <2>7. LoginMatchesSession'
    <3> SUFFICES ASSUME NEW x \in DOMAIN user_map
                 PROVE  user_map'[x].value["LOGIN"] = 1 <=> x \in (online \ {u}) \cup ghosts
      BY <2>3, <2>5 DEF LoginMatchesSession
    <3>1. CASE x = u
      BY <3>1, <2>1, <2>4, <2>5 DEF AccountOf
    <3>2. CASE x # u
      BY <3>2, <2>4 DEF MapEvolves, LoginMatchesSession
    <3> QED
      BY <3>1, <3>2
  <2>8. TypeOK'
    BY <2>1, <2>3, <2>5 DEF TypeOK, GoodMap
  <2>9. /\ IdsGivenOut' /\ OnlineAccountKept'
        /\ (online' \cup ghosts') \cap (removing' \cup erasing') = {}
        /\ online' \cap ghosts' = {}
    BY <2>1, <2>3, <2>5 DEF IdsGivenOut, OnlineAccountKept
  <2> QED
    BY <2>3, <2>5, <2>6, <2>7, <2>8, <2>9
<1>5. ASSUME NEW u \in removing, RemoveReads(u)
      PROVE  AccountInv'
  <2>1. removing' = removing \ {u} /\ erasing' \subseteq erasing \cup {u}
        /\ UNCHANGED <<user_map, max_user_id, online, ghosts, copies>>
    BY <1>5 DEF RemoveReads
  <2> QED
    BY <2>1, <1>0 DEF TypeOK, GoodMap, IdsGivenOut, OnlineAccountKept,
                      LoginMatchesSession, CopyAgrees
<1>6. ASSUME NEW u \in erasing, RemoveErases(u)
      PROVE  AccountInv'
  <2>1. DOMAIN user_map' = DOMAIN user_map \ {u}
        /\ user_map' = [x \in DOMAIN user_map \ {u} |-> user_map[x]]
        /\ erasing' = erasing \ {u} /\ UNCHANGED <<max_user_id, online, ghosts, removing, copies>>
    BY <1>6 DEF RemoveErases, Erase
  <2>2. \A x \in DOMAIN user_map' : user_map'[x] = user_map[x] /\ x \in DOMAIN user_map
    BY <2>1
  <2>3. GoodMap(user_map') /\ TypeOK'
    BY <2>1, <2>2 DEF GoodMap, TypeOK
  <2>4. \A c \in copies : CopyAgrees(c)'
    BY <2>1, <2>2 DEF CopyAgrees
  <2>5. LoginMatchesSession' /\ OnlineAccountKept' /\ IdsGivenOut'
    BY <2>1, <2>2 DEF LoginMatchesSession, OnlineAccountKept, IdsGivenOut
  <2> QED
    BY <2>1, <2>3, <2>4, <2>5
<1>7. ASSUME NEW u \in DOMAIN user_map, ClientTakes(u)
      PROVE  AccountInv'
  <2> DEFINE c == [user |-> u, revision |-> user_map[u].REVISION,
                   value |-> Shared(user_map[u])]
  <2>1. copies' = copies \cup {c} /\ UNCHANGED <<user_map, max_user_id, online, ghosts, removing, erasing>>
    BY <1>7 DEF ClientTakes
  <2>2. u \in UserID /\ user_map[u] \in AccountType
    BY <1>0 DEF TypeOK
  <2>3. c \in CopyType
    BY <2>2 DEF CopyType, AccountType, Shared, SharedProperty
  <2>4. CopyAgrees(c)
    BY <2>2 DEF CopyAgrees, AccountType, Shared
  <2> QED
    BY <2>1, <2>2, <2>3, <2>4 DEF TypeOK, GoodMap, IdsGivenOut, OnlineAccountKept,
                                  LoginMatchesSession, CopyAgrees
<1>8. CASE UNCHANGED vars
  BY <1>8 DEF vars, TypeOK, GoodMap, IdsGivenOut, OnlineAccountKept,
              LoginMatchesSession, CopyAgrees
<1> QED
  BY <1>1, <1>2, <1>3, <1>4, <1>5, <1>6, <1>7, <1>8 DEF Next

-----------------------------------------------------------------------------
(* The variables of the accounts keep their types, whatever the number of  *)
(* users and however long the server runs.                                 *)
THEOREM AccountTypeCorrect == Spec => []TypeOK
<1>1. AccountInv => TypeOK
  BY DEF AccountInv
<1> QED
  BY InitAccount, NextAccount, <1>1, PTL DEF Spec

(* A patch brings every copy up to date, whatever the revision at which    *)
(* the copy was taken: GetUserRevisionPatch of server/Account.cpp.         *)
THEOREM PatchIsComplete == Spec => []PatchComplete
<1>1. AccountInv => PatchComplete
  <2> SUFFICES ASSUME AccountInv, NEW c \in copies, c.user \in DOMAIN user_map
               PROVE  Patched(c.value, GetUserRevisionPatch(user_map, c.user, c.revision))
                        = Shared(user_map[c.user])
    BY DEF PatchComplete
  <2> DEFINE a == user_map[c.user]
             patch == GetUserRevisionPatch(user_map, c.user, c.revision)
  <2>1. a \in AccountType /\ c \in CopyType /\ \A p \in Property : a.revision[p] <= a.REVISION
    BY DEF AccountInv, TypeOK, GoodMap, Good
  <2>2. CopyAgrees(c)
    BY DEF AccountInv
  <2>3. patch.value = [p \in (IF a.REVISION > c.revision THEN Newer(a, c.revision) ELSE {})
                         |-> a.value[p]]
    BY DEF GetUserRevisionPatch, AccountOf
  <2>4. ASSUME NEW p \in SharedProperty
        PROVE  (IF p \in DOMAIN patch.value THEN patch.value[p] ELSE c.value[p]) = a.value[p]
    <3>1. p \in Property /\ a.revision[p] \in Nat /\ a.REVISION \in Nat /\ c.revision \in Nat
      BY <2>1 DEF SharedProperty, AccountType, CopyType
    <3>2. CASE a.revision[p] > c.revision
      <4>1. p \in DOMAIN patch.value
        BY <3>1, <3>2, <2>1, <2>3 DEF Newer
      <4> QED
        BY <4>1, <2>3
    <3>3. CASE a.revision[p] <= c.revision
      <4>1. p \notin DOMAIN patch.value
        BY <3>1, <3>3, <2>3 DEF Newer
      <4> QED
        BY <4>1, <3>3, <2>2 DEF CopyAgrees
    <3> QED
      BY <3>1, <3>2, <3>3
  <2> QED
    BY <2>4 DEF Patched, Shared
<1> QED
  BY InitAccount, NextAccount, <1>1, PTL DEF Spec

(* The removal thread of Account::Remove never erases the account of a     *)
(* user whose session is up, although it reads LOGIN before it locks.      *)
THEOREM OnlineAccountIsKept == Spec => []OnlineAccountKept
<1>1. AccountInv => OnlineAccountKept
  BY DEF AccountInv
<1> QED
  BY InitAccount, NextAccount, <1>1, PTL DEF Spec

(* LogIn and LogOut follow the session: an account is marked as logged in  *)
(* exactly while its session is up, but for the ids that a session had     *)
(* when nobody reports it any more (SessionGets).                          *)
THEOREM LoginFollowsSession == Spec => []LoginMatchesSession
<1>1. AccountInv => LoginMatchesSession
  BY DEF AccountInv
<1> QED
  BY InitAccount, NextAccount, <1>1, PTL DEF Spec

(* Ids are given out once: RegisterPublicKey never hands an id to a second *)
(* user, not even one whose account has been erased.                       *)
THEOREM IdsAreFresh == Spec => IdNeverReused
<1> DEFINE Fresh == \A u \in DOMAIN user_map' \ DOMAIN user_map :
                      /\ \A c \in copies : c.user # u
                      /\ u \notin removing \cup erasing
<1>1. ASSUME AccountInv, Next PROVE Fresh
  <2>0. GoodMap(user_map) /\ DOMAIN user_map \subseteq UserID /\ max_user_id \in Nat
        /\ \A c \in copies : c.user \in UserID
    BY <1>1 DEF AccountInv, TypeOK, CopyType
  <2>a. ASSUME NEW u \in UserID, u \in DOMAIN user_map \/ u = max_user_id + 1,
               DOMAIN user_map' = DOMAIN user_map \cup {u}
        PROVE  Fresh
    <3> SUFFICES ASSUME NEW x \in DOMAIN user_map', x \notin DOMAIN user_map
                 PROVE  (\A c \in copies : c.user # x) /\ x \notin removing \cup erasing
      OBVIOUS
    <3>1. x = max_user_id + 1
      BY <2>a
    <3> QED
      BY <3>1, <2>0, <1>1 DEF AccountInv, IdsGivenOut, TypeOK, UserID
  <2>1. ASSUME NEW k \in Keys, NEW ip \in Addresses, NEW port \in Addresses,
               ServerReceivePublicKey(k, ip, port)
        PROVE  Fresh
    <3> DEFINE u == max_user_id + 1
    <3>1. u \in UserID /\ u # 0
      BY <2>0 DEF UserID
    <3>2. DOMAIN RegisterPublicKey(user_map, u, k) = DOMAIN user_map \cup {u}
      BY <3>1 DEF RegisterPublicKey, SetRevision, SetPublicKey, SetUserName, Set, PutAccount
    <3>3. \A um, p, v : u \in DOMAIN um => DOMAIN Set(um, u, p, v) = DOMAIN um
      BY DEF Set, PutAccount
    <3> HIDE DEF u
    <3>4. DOMAIN user_map' = DOMAIN user_map \cup {u}
      BY <2>1, <3>2, <3>3 DEF ServerReceivePublicKey, NextUserId, LogIn, u
    <3> QED
      BY <3>1, <3>4, <2>a DEF u
  <2>2. ASSUME NEW u \in DOMAIN user_map, NEW data \in TextData,
               ServerReceiveAccountInitializeData(u, data)
        PROVE  Fresh
    <3>1. DOMAIN user_map' = DOMAIN user_map \cup {u}
      BY <2>0, <2>2, LoadEvolves DEF ServerReceiveAccountInitializeData, MapEvolves
    <3> QED
      BY <3>1
  <2>3. ASSUME NEW u \in DOMAIN user_map, Update(u) PROVE Fresh
    <3>1. DOMAIN user_map' = DOMAIN user_map
      BY <2>3 DEF Update, ServerUpdateAccountProperty, SetUserName, SetUserTrip,
                  SetUserModelName, SetUserChannel, Set, PutAccount
    <3> QED
      BY <3>1
  <2>4. ASSUME NEW u \in online, UserFatalConnectionError(u) PROVE Fresh
    <3>1. u \in DOMAIN user_map
      BY <1>1 DEF AccountInv, OnlineAccountKept
    <3>2. DOMAIN user_map' = DOMAIN user_map
      BY <2>4, <3>1 DEF UserFatalConnectionError, LogOut, Set, PutAccount
    <3> QED
      BY <3>2
  <2>5. ASSUME NEW u \in removing, RemoveReads(u) PROVE Fresh
    BY <2>5 DEF RemoveReads
  <2>6. ASSUME NEW u \in erasing, RemoveErases(u) PROVE Fresh
    BY <2>6 DEF RemoveErases, Erase
  <2>7. ASSUME NEW u \in DOMAIN user_map, ClientTakes(u) PROVE Fresh
    BY <2>7 DEF ClientTakes
  <2> QED
    BY <1>1, <2>1, <2>2, <2>3, <2>4, <2>5, <2>6, <2>7 DEF Next
<1>2. AccountInv /\ [Next]_vars => [Fresh]_vars
  BY <1>1
<1> QED
  BY InitAccount, NextAccount, <1>2, PTL DEF Spec, IdNeverReused

(* The accounts are sound, for any number of users and changes.            *)
THEOREM AccountsAreSound == Spec => []AccountsSound
<1> QED
  BY AccountTypeCorrect, OnlineAccountIsKept, LoginFollowsSession, PTL DEF AccountsSound
=============================================================================
