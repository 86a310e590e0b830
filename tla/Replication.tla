---------------------------- MODULE Replication -----------------------------
(***************************************************************************)
(* How the accounts of the server reach the clients: every handler that    *)
(* changes an account tells all sessions its new revision, a client that   *)
(* is behind asks for a patch, and PlayerManager applies it.  The accounts *)
(* and their removal threads are those of Account; this module adds the    *)
(* messages each handler sends and the clients that watch.                 *)
(*                                                                         *)
(* A watcher is the session of a logged-in client, whose own account is    *)
(* left out: it only reads the accounts of others.  Its messages arrive in *)
(* order (module Session).  The handlers of the server run one at a time;  *)
(* the removal threads run beside them, even in the middle of a handler.   *)
(***************************************************************************)
EXTENDS Account, Sequences

CONSTANTS
    Watchers,
    MaxPending     \* bound on the messages under way to and from a watcher

VARIABLES
    joined,      \* watchers whose initial data the server has received
    down, up,    \* messages to and from each watcher
    serving,     \* the patch request the server is in the middle of
    players,     \* PlayerManager::login_players_ of each watcher
    announced,   \* calls of onLogin and onLogout, for each watcher and user
    snapshots    \* history: what handlers left of each account

replicas == <<joined, down, up, serving, players, announced>>
allVars == <<vars, replicas, snapshots>>

Users == 1..MaxUsers

Request == [user : Users, revision : Nat]
Notice == [kind : {"Notify"}, user : Users, revision : Nat]

\* The empty patch is what GetUserRevisionPatch returns when it finds nothing.
EmptyPatch == [kind |-> "Patch", user |-> 0, revision |-> 0, value |-> <<>>]
IsPatch(m) ==
    m.kind = "Patch" /\ (m = EmptyPatch \/ (m.user \in Users /\ DOMAIN m.value \subseteq SharedProperty))

NoRequest == [phase |-> "idle"]
Phases == {"asked", "answering"}

\* Player, with absent properties for the "", 0 and false of a new one.
Player == [revision : Nat, value : [SharedProperty -> Value]]
NewPlayer == [revision |-> 0, value |-> [p \in SharedProperty |-> NoValue]]

ReplicationTypeOK ==
    /\ TypeOK
    /\ joined \subseteq Watchers
    /\ \A w \in Watchers :
          /\ \A i \in DOMAIN down[w] : down[w][i] \in Notice \/ IsPatch(down[w][i])
          /\ up[w] \in Seq(Request)
          /\ DOMAIN players[w] \subseteq Users
          /\ \A u \in DOMAIN players[w] : players[w][u] \in Player
    /\ \/ serving = NoRequest
       \/ serving \in [phase : Phases, watcher : Watchers, request : Request, revision : Nat]

ReplicationInit ==
    /\ Init
    /\ joined = {}
    /\ down = [w \in Watchers |-> <<>>] /\ up = [w \in Watchers |-> <<>>]
    /\ serving = NoRequest
    /\ players = [w \in Watchers |-> [u \in {} |-> NewPlayer]]
    /\ announced = [w \in Watchers |-> [u \in Users |-> <<>>]]
    /\ snapshots = [u \in Users |-> {}]

-----------------------------------------------------------------------------
(* The server: the handlers of Account, with what they send.               *)

Idle == serving = NoRequest
Room == \A w \in Watchers : Len(down[w]) + Len(up[w]) < MaxPending

Notify(u, r) == [kind |-> "Notify", user |-> u, revision |-> r]

\* SendAll and SendOthers reach every session that has an id.
NotifyAll(u) ==
    down' = [w \in Watchers |-> Append(down[w], Notify(u, GetUserRevision(user_map', u)))]

\* new_revison > old_revision
Changed(u) == GetUserRevision(user_map', u) > GetUserRevision(user_map, u)

\* Mutant of TellsChange: an update that follows another is not told.
TellsOddChange(u) == Changed(u) /\ GetUserRevision(user_map', u) % 2 = 1

\* Whether ServerUpdateAccountProperty tells the others.
TellsChange(u) == Changed(u)

\* What a handler leaves is what a client may come to see.
Published ==
    snapshots' = [u \in Users |->
        IF u \in DOMAIN user_map' /\ Changed(u)
        THEN snapshots[u] \cup {[revision |-> GetUserRevision(user_map', u),
                                 value    |-> Shared(user_map'[u])]}
        ELSE snapshots[u]]

PublicKey(k, ip, port) ==
    /\ Idle /\ ServerReceivePublicKey(k, ip, port) /\ Published
    /\ UNCHANGED replicas

InitializeData(u, data) ==
    /\ Idle /\ Room /\ ServerReceiveAccountInitializeData(u, data) /\ Published
    /\ NotifyAll(u)
    /\ UNCHANGED <<joined, up, serving, players, announced>>

UpdateProperty(u) ==
    /\ Idle /\ Room /\ Update(u) /\ Published
    /\ IF TellsChange(u) THEN NotifyAll(u) ELSE UNCHANGED down
    /\ UNCHANGED <<joined, up, serving, players, announced>>

FatalConnectionError(u) ==
    /\ Idle /\ UserFatalConnectionError(u) /\ Published
    /\ NotifyAll(u)
    /\ UNCHANGED <<joined, up, serving, players, announced>>

RemovalThread(u) ==
    /\ RemoveReads(u) \/ RemoveErases(u)
    /\ UNCHANGED <<replicas, snapshots>>

\* GetIDList goes through user_map_, which is in the order of the ids.
InOrder(ids) ==
    {list \in [1..Cardinality(ids) -> ids] :
        \A i, j \in 1..Cardinality(ids) : i < j => list[i] < list[j]}

\* The initial data of a watcher: it is told the revision of every account.
Join(w) ==
    /\ Idle /\ w \notin joined
    /\ joined' = joined \cup {w}
    /\ \E list \in InOrder(GetIDList(user_map)) :
          down' = [down EXCEPT ![w] = @ \o
              [i \in DOMAIN list |-> Notify(list[i], GetUserRevision(user_map, list[i]))]]
    /\ UNCHANGED <<vars, up, serving, players, announced, snapshots>>

Answer(m) ==
    /\ serving' = NoRequest
    /\ down' = [down EXCEPT ![serving.watcher] = Append(@, m)]

\* ServerRequestedAccountRevisionPatch compares the revisions ...
PatchRequested(w) ==
    /\ Idle /\ up[w] # <<>>
    /\ up' = [up EXCEPT ![w] = Tail(@)]
    /\ LET request == Head(up[w])
       IN serving' = IF request.revision < GetUserRevision(user_map, request.user)
                     THEN [phase |-> "asked", watcher |-> w, request |-> request,
                           revision |-> 0]
                     ELSE NoRequest
    /\ UNCHANGED <<vars, joined, down, players, announced, snapshots>>

\* ... GetUserRevisionPatch reads the revision once more, for the header ...
PatchStarted ==
    LET revision == GetUserRevision(user_map, serving.request.user)
    IN  /\ serving.phase = "asked"
        /\ IF revision > serving.request.revision
           THEN serving' = [serving EXCEPT !.phase = "answering", !.revision = revision]
                /\ UNCHANGED down
           ELSE Answer(EmptyPatch)
        /\ UNCHANGED <<vars, joined, up, players, announced, snapshots>>

\* ... and collects the properties, all without the lock.
PatchSent ==
    LET u     == serving.request.user
        patch == GetUserRevisionPatch(user_map, u, serving.request.revision)
    IN  /\ serving.phase = "answering"
        /\ Answer([kind |-> "Patch", user |-> u, revision |-> serving.revision,
                   value |-> patch.value])
        /\ UNCHANGED <<vars, joined, up, players, announced, snapshots>>

-----------------------------------------------------------------------------
(* The clients.                                                            *)

\* PlayerManager::GetFromId, with what a new Player would be for nobody.
GetFromId(w, u) == IF u \in DOMAIN players[w] THEN players[w][u] ELSE NewPlayer

GetCurrentUserRevision(w, u) == GetFromId(w, u).revision

Behind(w, m) == m.revision > GetCurrentUserRevision(w, m.user)

\* ClientReceiveAccountRevisionUpdateNotify: ask for what is new.
ReceiveNotify(w) ==
    LET m == Head(down[w])
    IN  /\ down[w] # <<>> /\ m.kind = "Notify"
        /\ down' = [down EXCEPT ![w] = Tail(@)]
        /\ up' = IF Behind(w, m)
                 THEN [up EXCEPT ![w] = Append(@, [user     |-> m.user,
                                  revision |-> GetCurrentUserRevision(w, m.user)])]
                 ELSE up
        /\ UNCHANGED <<vars, joined, serving, players, announced, snapshots>>

LoggedIn(value) == value["LOGIN"] = 1

\* Mutant of Login: the name announces the player each time it arrives.
LoginEachName(old, value) ==
    LoggedIn(value) /\ (~LoggedIn(old) \/ old["NAME"] # value["NAME"])

\* Whether a patch from old to value calls onLogin: LOGIN comes before NAME in
\* a patch, and a player still nameless then is announced with its name.
Login(old, value) ==
    /\ LoggedIn(value) /\ value["NAME"] # NoValue
    /\ ~LoggedIn(old) \/ old["NAME"] = NoValue

Logout(old, value) == LoggedIn(old) /\ ~LoggedIn(value)

\* Mutant of Applied: the properties a patch lacks are those of a new player.
AppliedToNew(old, m) ==
    [p \in SharedProperty |-> IF p \in DOMAIN m.value THEN m.value[p] ELSE NoValue]

\* The properties of a player after the patch m.  A logout clears the model,
\* and a model later in the same patch sets it again.
Applied(old, m) ==
    LET new == Patched(old, m)
    IN  IF Logout(old, new) /\ "MODEL_NAME" \notin DOMAIN m.value
        THEN [new EXCEPT !["MODEL_NAME"] = NoValue]
        ELSE new

Calls(old, value) ==
    (IF Login(old, value) THEN <<"onLogin">> ELSE <<>>)
        \o (IF Logout(old, value) THEN <<"onLogout">> ELSE <<>>)

Ignored(m) == m.user = 0

\* ClientReceiveAccountRevisionPatch: ApplyRevisionPatch, which ignores a patch
\* that names no user.  (A debug build stops at the assertion before that.)
ReceivePatch(w) ==
    LET m     == Head(down[w])
        old   == GetFromId(w, m.user).value
        value == Applied(old, m)
    IN  /\ down[w] # <<>> /\ m.kind = "Patch"
        /\ down' = [down EXCEPT ![w] = Tail(@)]
        /\ IF Ignored(m)
           THEN UNCHANGED <<players, announced>>
           ELSE /\ players' = [players EXCEPT ![w] =
                       [u \in DOMAIN @ \cup {m.user} |->
                           IF u = m.user THEN [revision |-> m.revision, value |-> value]
                                         ELSE @[u]]]
                /\ announced' = [announced EXCEPT ![w][m.user] = @ \o Calls(old, value)]
        /\ UNCHANGED <<vars, joined, up, serving, snapshots>>

-----------------------------------------------------------------------------
ReplicationNext ==
    \/ \E k \in Keys, ip \in Addresses, port \in Addresses : PublicKey(k, ip, port)
    \/ \E u \in DOMAIN user_map, data \in TextData : InitializeData(u, data)
    \/ \E u \in DOMAIN user_map : UpdateProperty(u)
    \/ \E u \in online : FatalConnectionError(u)
    \/ \E u \in removing \cup erasing : RemovalThread(u)
    \/ \E w \in Watchers : Join(w) \/ PatchRequested(w) \/ ReceiveNotify(w) \/ ReceivePatch(w)
    \/ PatchStarted \/ PatchSent

ReplicationSpec == ReplicationInit /\ [][ReplicationNext]_allVars

\* The server serves its queue in order, the clients take one command a frame.
ReplicationFairness ==
    /\ WF_allVars(PatchStarted) /\ WF_allVars(PatchSent)
    /\ \A w \in Watchers :
          /\ SF_allVars(PatchRequested(w))
          /\ WF_allVars(ReceiveNotify(w)) /\ WF_allVars(ReceivePatch(w))

FairReplicationSpec == ReplicationSpec /\ ReplicationFairness
=============================================================================
