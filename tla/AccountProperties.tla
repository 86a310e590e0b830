-------------------------- MODULE AccountProperties -------------------------
(***************************************************************************)
(* What the server's accounts promise to the clients that copy them.       *)
(***************************************************************************)
EXTENDS Account

(* A patch brings a copy up to date.  Whatever revision of an account a    *)
(* client copied, and however many properties changed since, the patch     *)
(* Account::GetUserRevisionPatch builds for that revision turns the copy   *)
(* into the account as it is now.  A property stored without a revision,   *)
(* or under a revision some client already has, would be lost for good.    *)
PatchComplete ==
    \A c \in copies :
        c.user \in DOMAIN user_map =>
            Patched(c.value, GetUserRevisionPatch(user_map, c.user, c.revision))
              = Shared(user_map[c.user])

(* An id is never given to a second user: a client that still holds a copy *)
(* of an erased account would take the newcomer for the old user, at a     *)
(* revision it believes to have already.                                   *)
IdNeverReused ==
    [][\A u \in DOMAIN user_map' \ DOMAIN user_map :
          /\ \A c \in copies : c.user # u
          /\ u \notin removing \cup erasing]_vars

(* The removal thread and the handlers share user_map_ and the thread      *)
(* reads LOGIN before it takes the lock: whatever it does between the two, *)
(* the account of a user who is logged in stays.                           *)
OnlineAccountKept == online \cup ghosts \subseteq DOMAIN user_map

(* An account is marked as logged in while its session is up and until the *)
(* session reports its failure, and no longer.  The ids no session will    *)
(* report stay marked for good: that of a session which failed before its  *)
(* key was handled, and that of a key another one of the session followed. *)
LoginMatchesSession ==
    \A u \in DOMAIN user_map :
        user_map[u].value["LOGIN"] = 1 <=> u \in online \cup ghosts

(* A user whose session failed is erased in the end.                       *)
LostUserErased ==
    \A u \in 1..MaxUsers : u \in removing ~> u \notin DOMAIN user_map

(* The accounts, together: well typed, there for every user who is online, *)
(* and marked as logged in for these users and the ghosts only.            *)
AccountsSound == TypeOK /\ OnlineAccountKept /\ LoginMatchesSession
=============================================================================
