------------------------------ MODULE Account -------------------------------
(***************************************************************************)
(* The server's accounts over time: every handler of server/main.cpp that  *)
(* changes them, the thread Account::Remove starts half an hour before an  *)
(* account is erased, and the copies of an account that clients hold.      *)
(*                                                                         *)
(* The handlers run one at a time, on the thread of io_service::run(); the *)
(* removal threads run beside them.                                        *)
(***************************************************************************)
EXTENDS AccountStore, FiniteSets

CONSTANTS
    MaxUsers,      \* bound on the ids given out
    MaxRevision,   \* bound on the revision of an account
    MaxCopies      \* bound on the number of copies clients take

VARIABLES
    user_map,      \* Account::user_map_
    max_user_id,   \* Account::max_user_id_
    online,        \* ids whose session is up: it will report UserFatalConnectionError
    ghosts,        \* history: ids no session will ever report the end of
    removing,      \* ids a removal thread sleeps for
    erasing,       \* ids a removal thread found logged out and will erase
    copies         \* history: every copy of an account some client holds

vars == <<user_map, max_user_id, online, ghosts, removing, erasing, copies>>

Shared(a) == [p \in SharedProperty |-> a.value[p]]

\* What a client has after it applied a patch to its copy of the account.
Patched(values, patch) ==
    [p \in SharedProperty |-> IF p \in DOMAIN patch.value THEN patch.value[p]
                                                          ELSE values[p]]

CopyType == [user : UserID, revision : Nat, value : [SharedProperty -> Value]]

TypeOK ==
    /\ max_user_id \in Nat
    /\ DOMAIN user_map \subseteq UserID
    /\ user_map \in [DOMAIN user_map -> AccountType]
    /\ online \subseteq UserID /\ ghosts \subseteq UserID
    /\ removing \subseteq UserID /\ erasing \subseteq UserID
    /\ copies \subseteq CopyType

Init ==
    /\ user_map = [u \in {} |-> NoAccount]
    /\ max_user_id = 0
    /\ online = {} /\ ghosts = {} /\ removing = {} /\ erasing = {}
    /\ copies = {}

Bounded(um) == \A u \in DOMAIN um : um[u].REVISION <= MaxRevision

\* Mutant of NextUserId: the first id no account has.
FirstFreeId == CHOOSE u \in 1..(max_user_id + 1) :
                  u \notin DOMAIN user_map /\ \A v \in 1..(u - 1) : v \in DOMAIN user_map

\* The id RegisterPublicKey gives out: ++max_user_id_.
NextUserId == max_user_id + 1

\* Session::FatalError reports a session by the id it has then, and only once:
\* a session that failed before it had an id has been reported without one, and
\* one that sends a second key forgets the id it got for the first.
SessionGets(u) ==
    \/ online' = online \cup {u} /\ UNCHANGED ghosts
    \/ ghosts' = ghosts \cup {u} /\ UNCHANGED online
    \/ \E v \in online :
          /\ online' = (online \ {v}) \cup {u}
          /\ ghosts' = ghosts \cup {v}

\* ServerReceivePublicKey: register the key, log in, note where the client is.
\* The handler runs as long as the session object is there, reported or not.
ServerReceivePublicKey(k, ip, port) ==
    LET u          == NextUserId
        registered == RegisterPublicKey(user_map, u, k)
        loggedIn   == LogIn(registered, u)
        addressed  == Set(loggedIn, u, "IP_ADDRESS", ip)
    IN  /\ u <= MaxUsers
        /\ max_user_id' = max_user_id + 1
        /\ user_map' = Set(addressed, u, "UDP_PORT", port)
        /\ SessionGets(u)
        /\ UNCHANGED <<removing, erasing, copies>>

\* ServerReceiveAccountInitializeData of the session of u.
ServerReceiveAccountInitializeData(u, data) ==
    /\ u \in DOMAIN user_map
    /\ user_map' = LoadInitializeData(user_map, u, data)
    /\ Bounded(user_map')
    /\ UNCHANGED <<max_user_id, online, ghosts, removing, erasing, copies>>

\* ServerUpdateAccountProperty of the session of u, one branch a property.
ServerUpdateAccountProperty(u, p, v) ==
    /\ u \in DOMAIN user_map
    /\ \/ p = "NAME"       /\ user_map' = SetUserName(user_map, u, v)
       \/ p = "TRIP"       /\ user_map' = SetUserTrip(user_map, u, v)
       \/ p = "MODEL_NAME" /\ user_map' = SetUserModelName(user_map, u, v)
       \/ p = "CHANNEL"    /\ user_map' = SetUserChannel(user_map, u, v)
    /\ Bounded(user_map')
    /\ UNCHANGED <<max_user_id, online, ghosts, removing, erasing, copies>>

\* UserFatalConnectionError: the session of u failed, for the first time.
UserFatalConnectionError(u) ==
    /\ u \in online
    /\ online' = online \ {u}
    /\ user_map' = LogOut(user_map, u)
    /\ removing' = removing \cup {u}
    /\ UNCHANGED <<max_user_id, ghosts, erasing, copies>>

\* Mutant of RemovalDecided: the test of login is inverted.
RemovalInverted(u) ==
    IF u \in DOMAIN user_map THEN {user_map[u].value["LOGIN"] = 1} ELSE BOOLEAN

\* Whether the thread will erase u.  For an account that is gone, the variable
\* it reads LOGIN into keeps whatever the stack held.
RemovalDecided(u) ==
    IF u \in DOMAIN user_map THEN {user_map[u].value["LOGIN"] = 0} ELSE BOOLEAN

\* Remove, after its sleep: read LOGIN without the lock.
RemoveReads(u) ==
    /\ u \in removing
    /\ removing' = removing \ {u}
    /\ \E erase \in RemovalDecided(u) :
          erasing' = IF erase THEN erasing \cup {u} ELSE erasing
    /\ UNCHANGED <<user_map, max_user_id, online, ghosts, copies>>

\* Remove, under the lock.
RemoveErases(u) ==
    /\ u \in erasing
    /\ erasing' = erasing \ {u}
    /\ user_map' = Erase(user_map, u)
    /\ UNCHANGED <<max_user_id, online, ghosts, removing, copies>>

\* A client takes the account over as it is now.
ClientTakes(u) ==
    /\ u \in DOMAIN user_map
    /\ Cardinality(copies) < MaxCopies
    /\ copies' = copies \cup {[user |-> u, revision |-> user_map[u].REVISION,
                               value |-> Shared(user_map[u])]}
    /\ UNCHANGED <<user_map, max_user_id, online, ghosts, removing, erasing>>

TextData == UNION {[S -> Text] : S \in SUBSET {"NAME", "MODEL_NAME", "TRIP"}}

Update(u) ==
    \/ \E p \in {"NAME", "TRIP", "MODEL_NAME"}, t \in Text \cup {BadText} :
          ServerUpdateAccountProperty(u, p, t)
    \/ \E c \in Channels : ServerUpdateAccountProperty(u, "CHANNEL", c)

Next ==
    \/ \E k \in Keys, ip \in Addresses, port \in Addresses :
          ServerReceivePublicKey(k, ip, port)
    \/ \E u \in DOMAIN user_map, data \in TextData :
          ServerReceiveAccountInitializeData(u, data)
    \/ \E u \in DOMAIN user_map : Update(u)
    \/ \E u \in online : UserFatalConnectionError(u)
    \/ \E u \in removing : RemoveReads(u)
    \/ \E u \in erasing : RemoveErases(u)
    \/ \E u \in DOMAIN user_map : ClientTakes(u)

\* A sleeping thread wakes up, and a thread that runs takes the lock.
Fairness == \A u \in 1..MaxUsers : WF_vars(RemoveReads(u)) /\ WF_vars(RemoveErases(u))

Spec == Init /\ [][Next]_vars
FairSpec == Spec /\ Fairness
=============================================================================
