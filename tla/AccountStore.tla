---------------------------- MODULE AccountStore ----------------------------
(***************************************************************************)
(* The data structure behind the server's accounts: class Account of       *)
(* server/Account.hpp and server/Account.cpp, as operators on user_map_.   *)
(*                                                                         *)
(* An account maps every property to a value and to the revision at which  *)
(* the value was stored.  REVISION is the revision of the account as a     *)
(* whole.  A property the account has never been given has NoValue.        *)
(***************************************************************************)
EXTENDS Integers

CONSTANTS
    Text,          \* strings whose length every setter accepts
    BadText,       \* a string every setter rejects: empty or too long
    EmptyText,     \* the empty string, stored for a removed trip
    DefaultName,   \* "???", the name of an account just registered
    NoValue,       \* what an absent property is
    Channels,      \* channel numbers
    Addresses,     \* IP addresses and ports of clients
    Keys,          \* public keys
    Trips,         \* what a trip is shown as
    GetTrip(_)     \* Encrypter::GetTrip, the one-way hash that makes a trip

ASSUME TextAssumption ==
    /\ DefaultName \in Text
    /\ BadText \notin Text
    /\ 0 \in Channels /\ Channels \subseteq Nat
    /\ \A t \in Text : GetTrip(t) \in Trips
    /\ NoValue \notin Text \cup {EmptyText} \cup Channels \cup {0, 1}
                     \cup Addresses \cup Keys \cup Trips

UserID == Nat \ {0}

\* The properties an account stores next to its REVISION.
Property == {"PUBLIC_KEY", "LOGIN", "CHANNEL", "NAME", "MODEL_NAME", "TRIP",
             "IP_ADDRESS", "UDP_PORT"}

\* All but the key is stored with a revision and so reaches other clients.
SharedProperty == Property \ {"PUBLIC_KEY"}

Value == Text \cup {EmptyText, NoValue} \cup Channels \cup {0, 1}
         \cup Addresses \cup Keys \cup Trips

AccountType == [value : [Property -> Value], revision : [Property -> Nat],
                REVISION : Nat]

NoAccount == [value    |-> [p \in Property |-> NoValue],
              revision |-> [p \in Property |-> 0],
              REVISION |-> 0]

-----------------------------------------------------------------------------
(* Reading.  A missing account reads like an empty one.                    *)

AccountOf(um, u) == IF u \in DOMAIN um THEN um[u] ELSE NoAccount

GetUserRevision(um, u) == AccountOf(um, u).REVISION

GetIDList(um) == DOMAIN um \ {0}

\* Mutant of Newer: the first revision after r is taken for known.
NewerButOne(a, r) == {p \in Property : a.revision[p] > r + 1}

Newer(a, r) == {p \in Property : a.revision[p] > r}

\* GetUserRevisionPatch: what a client that has revision r of u lacks.
GetUserRevisionPatch(um, u, r) ==
    LET a == AccountOf(um, u)
    IN  [user     |-> u,
         revision |-> a.REVISION,
         value    |-> [p \in (IF a.REVISION > r THEN Newer(a, r) ELSE {}) |-> a.value[p]]]

-----------------------------------------------------------------------------
(* Writing.                                                                *)

PutAccount(um, u, a) == [x \in DOMAIN um \cup {u} |-> IF x = u THEN a ELSE um[x]]

\* Set with revision = true: a changed value takes the next revision.
Set(um, u, p, v) ==
    LET a == AccountOf(um, u)
    IN  IF u = 0 \/ a.value[p] = v
        THEN um
        ELSE PutAccount(um, u, [value    |-> [a.value EXCEPT ![p] = v],
                                revision |-> [a.revision EXCEPT ![p] = a.REVISION + 1],
                                REVISION |-> a.REVISION + 1])

\* Set with revision = false, of the key and of REVISION itself.
SetPublicKey(um, u, k) ==
    IF u = 0 THEN um ELSE PutAccount(um, u, [AccountOf(um, u) EXCEPT !.value["PUBLIC_KEY"] = k])

SetRevision(um, u, r) ==
    IF u = 0 THEN um ELSE PutAccount(um, u, [AccountOf(um, u) EXCEPT !.REVISION = r])

SetUserName(um, u, t) == IF t \in Text THEN Set(um, u, "NAME", t) ELSE um

SetUserModelName(um, u, t) == IF t \in Text THEN Set(um, u, "MODEL_NAME", t) ELSE um

SetUserTrip(um, u, t) ==
    Set(um, u, "TRIP", IF t \in Text THEN GetTrip(t) ELSE EmptyText)

SetUserChannel(um, u, c) == Set(um, u, "CHANNEL", c)

LogIn(um, u) == Set(um, u, "LOGIN", 1)

LogOut(um, u) == Set(um, u, "LOGIN", 0)

\* RegisterPublicKey for the fresh id u: the name first, at revision 1, then
\* the key, which no revision covers, then the revision itself.
RegisterPublicKey(um, u, k) ==
    LET named == SetUserName(um, u, DefaultName)
        keyed == SetPublicKey(named, u, k)
    IN  SetRevision(keyed, u, 1)

\* LoadInitializeData: data maps the properties a client sent to their text.
\* AccountManager::GetSerializedData puts them in the order used here.
LoadInitializeData(um, u, data) ==
    LET named   == IF "NAME" \in DOMAIN data
                   THEN SetUserName(um, u, data["NAME"]) ELSE um
        modeled == IF "MODEL_NAME" \in DOMAIN data
                   THEN SetUserModelName(named, u, data["MODEL_NAME"]) ELSE named
    IN  IF "TRIP" \in DOMAIN data
        THEN SetUserTrip(modeled, u, data["TRIP"]) ELSE modeled

\* Mutant of Erase: everybody up to u goes.
EraseUpTo(um, u) == [x \in {x \in DOMAIN um : x > u} |-> um[x]]

Erase(um, u) == [x \in DOMAIN um \ {u} |-> um[x]]
=============================================================================
