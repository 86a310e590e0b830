----------------------- MODULE ReplicationProperties ------------------------
(***************************************************************************)
(* What a client, and the scripts that run in it, may rely on about the    *)
(* accounts the server keeps.                                              *)
(***************************************************************************)
EXTENDS Replication

CONSTANTS TheWatcher, TheUser   \* a client and a user, whichever they are

ASSUME ReplicationAssumption ==
    /\ MaxUsers \in Nat
    /\ TheWatcher \in Watchers /\ TheUser \in Users

(* What a script can see of a player: the model of one that is logged out  *)
(* is not shown.                                                           *)
View(value) ==
    IF LoggedIn(value) THEN value ELSE [value EXCEPT !["MODEL_NAME"] = NoValue]

Seen(s) == [revision |-> s.revision, value |-> View(s.value)]

(* The account of a user, TheUser, as a client, TheWatcher, sees it.       *)
Replica == INSTANCE SnapshotReplica WITH
    snapshots <- {Seen(s) : s \in snapshots[TheUser]},
    copy      <- Seen(GetFromId(TheWatcher, TheUser)),
    gone      <- snapshots[TheUser] # {} /\ TheUser \notin DOMAIN user_map,
    Nothing   <- Seen(NewPlayer)

(* Whatever notifications and patches are under way, the player a client   *)
(* shows is the account as a handler of the server left it, and it is      *)
(* never set back, unless the server erased the account in the middle of a *)
(* patch.                                                                  *)
PlayersAreSnapshots == Replica!Spec

\* A registration alone is told to nobody; the change after it is.
ChangedSinceRegistered(u) == \E s \in snapshots[u] : s.revision < GetUserRevision(user_map, u)

(* A client that has sent its initial data ends up with every account the  *)
(* server still has at its last revision: no notification is needed twice, *)
(* and none is missing, however the requests and patches interleave.       *)
Converges ==
    \A w \in Watchers, u \in Users :
        []<>(w \in joined /\ ChangedSinceRegistered(u) =>
                GetCurrentUserRevision(w, u) = GetUserRevision(user_map, u))

(* The scripts of a client hear of each user once: one onLogin, when both  *)
(* the login and the name are known, and one onLogout after it, though     *)
(* patches overlap and repeat what the client already has.                 *)
CallsInOrder ==
    \A w \in Watchers, u \in Users :
        /\ announced[w][u] \in {<<>>, <<"onLogin">>, <<"onLogin", "onLogout">>}
        /\ LoggedIn(GetFromId(w, u).value) <=> announced[w][u] = <<"onLogin">>

(* The players of a client are well typed and their scripts told in order. *)
PlayersSound == ReplicationTypeOK /\ CallsInOrder
=============================================================================
