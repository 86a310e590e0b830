----------------------------- MODULE Characters -----------------------------
(***************************************************************************)
(* The characters one client shows for the other users: the players        *)
(* PlayerManager keeps, the data provider and the character of each, the   *)
(* models loaded for them, and the /reload command that reads the model    *)
(* directory again.                                                        *)
(*                                                                         *)
(* Everything here runs on the client's main thread, one command a frame.  *)
(* The accounts are those of the server; a patch brings everything the     *)
(* client lacks of one account and, when requests overlapped, more that it *)
(* has already (module Replication).  The client's own character, which    *)
(* has the id 0 and never goes away, is left out.                          *)
(***************************************************************************)
EXTENDS Integers, Sequences, FiniteSets

CONSTANTS
    Others, Me,    \* the users; Me is the one of this client
    Channels,
    Models,        \* names of models
    Related,       \* names that resolve to another model while not installed
    NoModel,       \* the empty name
    Substitute,    \* the file of that other model
    Unknown,       \* the file of UNKNOWN_MODEL_NAME
    MaxChanges     \* bound on the changes of accounts

Users == Others \cup {Me}
Files == Models \cup {Substitute, Unknown}

ASSUME CharactersAssumption ==
    /\ Me \notin Others /\ 0 \in Channels
    /\ Related \subseteq Models
    /\ NoModel \notin Models /\ Substitute \notin Models /\ Unknown \notin Models
    /\ Substitute # Unknown
    /\ MaxChanges \in Nat

VARIABLES
    account,      \* the accounts of the server
    known,        \* properties each account has been given
    news,         \* properties of each account that this client lacks
    changes,      \* changes of accounts so far
    wishes,       \* channels this client asked for, on their way
    playing,      \* the scene is MainLoop, and no longer Connect
    players,      \* PlayerManager::login_players_
    providers,    \* char_data_providers_: the file each character is loaded from
    characters,   \* CharacterManager: whether the provider it refers to exists
    tree,         \* models in ResourceManager::model_name_tree_
    model_names,  \* ResourceManager::model_names_
    loaded,       \* ResourceManager::shared_model_data_
    moment        \* what the main thread has just done

server == <<account, known, news, changes, wishes>>
scene == <<players, providers, characters, loaded>>
files == <<tree, model_names>>
vars == <<server, playing, scene, files, moment>>

Property == {"LOGIN", "CHANNEL", "MODEL_NAME"}
Model == Models \cup {NoModel}
Account == [login : BOOLEAN, channel : Channels, model : Model]
Player == [login : BOOLEAN, channel : Channels, model : Model, current : Model]
NewPlayer == [login |-> FALSE, channel |-> 0, model |-> NoModel, current |-> NoModel]

TypeOK ==
    /\ account \in [Users -> Account]
    /\ known \in [Users -> SUBSET Property] /\ news \in [Users -> SUBSET Property]
    /\ changes \in Nat /\ wishes \in Seq(Channels) /\ playing \in BOOLEAN
    /\ DOMAIN players \subseteq Users /\ players \in [DOMAIN players -> Player]
    /\ DOMAIN providers \subseteq Users /\ providers \in [DOMAIN providers -> Files]
    /\ DOMAIN characters \subseteq Users
    /\ characters \in [DOMAIN characters -> {"live", "dangling"}]
    /\ tree \subseteq Models /\ DOMAIN model_names \subseteq Models
    /\ model_names \in [DOMAIN model_names -> Files \ {Unknown}]
    /\ loaded \subseteq Files /\ moment \subseteq {"drawn", "cleared"}

Init ==
    /\ account = [u \in Users |-> [login |-> u = Me, channel |-> 0, model |-> NoModel]]
    /\ known = [u \in Users |-> IF u = Me THEN {"LOGIN"} ELSE {}]
    /\ news = known
    /\ changes = 0 /\ wishes = <<>> /\ playing = FALSE
    /\ players = [u \in {} |-> NewPlayer]
    /\ providers = [u \in {} |-> Unknown] /\ characters = [u \in {} |-> "live"]
    /\ tree \in SUBSET Models
    /\ model_names = [m \in {} |-> Unknown]
    /\ loaded = {} /\ moment = {}

-----------------------------------------------------------------------------
(* The server.                                                             *)

Change(u, p, new) ==
    /\ changes < MaxChanges /\ new # account[u]
    /\ account' = [account EXCEPT ![u] = new]
    /\ known' = [known EXCEPT ![u] = @ \cup {p}]
    /\ news' = [news EXCEPT ![u] = @ \cup {p}]
    /\ changes' = changes + 1
    /\ UNCHANGED <<playing, scene, files, moment>>

LogIn(u) ==
    /\ "LOGIN" \notin known[u]
    /\ Change(u, "LOGIN", [account[u] EXCEPT !.login = TRUE])
    /\ UNCHANGED wishes

LogOut(u) ==
    /\ u # Me /\ account[u].login
    /\ Change(u, "LOGIN", [account[u] EXCEPT !.login = FALSE])
    /\ UNCHANGED wishes

SetUserModelName(u, m) ==
    /\ account[u].login
    /\ Change(u, "MODEL_NAME", [account[u] EXCEPT !.model = m])
    /\ UNCHANGED wishes

SetUserChannel(u, c) ==
    /\ u # Me /\ account[u].login
    /\ Change(u, "CHANNEL", [account[u] EXCEPT !.channel = c])
    /\ UNCHANGED wishes

\* The channel this client asked for.  A value that is set already tells nobody.
SetMyChannel ==
    /\ wishes # <<>> /\ wishes' = Tail(wishes)
    /\ LET told == account[Me].channel # Head(wishes) \/ "CHANNEL" \notin known[Me]
       IN  /\ account' = [account EXCEPT ![Me].channel = Head(wishes)]
           /\ known' = [known EXCEPT ![Me] = @ \cup {"CHANNEL"}]
           /\ news' = IF told THEN [news EXCEPT ![Me] = @ \cup {"CHANNEL"}] ELSE news
    /\ UNCHANGED <<changes, playing, scene, files, moment>>

-----------------------------------------------------------------------------
(* The models.                                                             *)

\* NameToFullPath and LoadModelFromName: the file a name stands for.
FileOf(m) ==
    IF m \in DOMAIN model_names THEN model_names[m]
    ELSE IF m \in tree THEN m
    ELSE IF m \in Related THEN Substitute ELSE Unknown

\* NameToFullPath remembers what it found, and a name it did not find not.
Resolved(names) ==
    LET found == {m \in names : m \in tree \cup Related}
    IN  [m \in DOMAIN model_names \cup found |-> FileOf(m)]

InUse(provided) == {provided[u] : u \in DOMAIN provided}

-----------------------------------------------------------------------------
(* PlayerManager.                                                          *)

\* GetMyself() != nullptr
Myself(ps) == Me \in DOMAIN ps

\* ApplyRevisionPatch of the properties P of u, LOGIN first.
Applied(u, P) ==
    LET p      == IF u \in DOMAIN players THEN players[u] ELSE NewPlayer
        a      == account[u]
        leaves == "LOGIN" \in P /\ p.login /\ ~a.login
    IN  [p EXCEPT !.login = IF "LOGIN" \in P THEN a.login ELSE @,
                  !.channel = IF "CHANNEL" \in P THEN a.channel ELSE @,
                  !.model = IF "MODEL_NAME" \in P THEN a.model
                            ELSE IF leaves THEN NoModel ELSE @]

\* Mutant of Changed: the test looks at the channel instead, as the code that
\* is commented out did.
ChangedOrAway(ps) ==
    {u \in DOMAIN ps : ps[u].current # NoModel /\ ps[u].channel # ps[Me].channel}

\* Players whose character, if there is one, is of another model.
Changed(ps) == {u \in DOMAIN ps : ps[u].current # ps[u].model}

Current(ps, u) == IF u \in Changed(ps) THEN NoModel ELSE ps[u].current

\* player->id() != GetMyself()->id()
Stranger(u) == u # Me

\* Players who get a character.
Arriving(ps) ==
    {u \in DOMAIN ps : /\ Stranger(u) /\ Current(ps, u) = NoModel
                       /\ ps[u].model # NoModel /\ ps[u].channel = ps[Me].channel}

\* Mutant of Removed: RemoveCharacter leaves the character to charmgr_.
NotRemoved(gone) == {}

\* charmgr_->Remove of every character RemoveCharacter is called for.
Removed(gone) == gone

\* Update: one loop over the players; RemoveCharacter and AddCharacter touch
\* one player each.  CharacterManager::Add does not replace a character.
Update(ps) ==
    LET gone    == Changed(ps) \cap DOMAIN providers
        new     == Arriving(ps)
        kept    == DOMAIN characters \ Removed(gone)
        replace == gone \cup new
    IN  /\ players' = [u \in DOMAIN ps |-> [ps[u] EXCEPT
                !.current = IF u \in new THEN ps[u].model ELSE Current(ps, u)]]
        /\ providers' = [u \in (DOMAIN providers \ gone) \cup new |->
                IF u \in new THEN FileOf(ps[u].model) ELSE providers[u]]
        /\ characters' = [u \in kept \cup new |->
                IF u \notin kept THEN "live"
                ELSE IF u \in replace THEN "dangling" ELSE characters[u]]
        /\ model_names' = Resolved({ps[u].model : u \in new})
        /\ \/ /\ loaded' = loaded \cup InUse(providers')
              /\ moment' = {"drawn"}
           \/ /\ loaded' = InUse(providers')   \* ClearModelHandle, twice a minute
              /\ moment' = {"drawn", "cleared"}

\* Whether this frame calls Update, and Update does not return at once.
Updates(ps) == playing /\ Myself(ps)

\* The rest of a frame, with the players the command left.
Frame(ps) ==
    /\ IF Updates(ps)
       THEN Update(ps)
       ELSE players' = ps /\ moment' = {} /\ UNCHANGED <<providers, characters, model_names, loaded>>
    /\ UNCHANGED <<account, known, changes, wishes, playing, tree>>

\* A frame without a command that matters here.
IdleFrame == Frame(players) /\ UNCHANGED news

\* A frame whose command is a patch of u.
PatchFrame(u) ==
    /\ known[u] # {}
    /\ \E more \in SUBSET known[u] :
          LET P == news[u] \cup more
          IN  Frame([v \in DOMAIN players \cup {u} |->
                        IF v = u THEN Applied(u, P) ELSE players[v]])
    /\ news' = [news EXCEPT ![u] = {}]

\* ChannelChange::Update: release the models nobody uses, ask for the channel.
ChangeChannel(c) ==
    /\ changes < MaxChanges \/ ~playing
    /\ ~playing => c = 0
    /\ playing' = TRUE
    /\ loaded' = InUse(providers)
    /\ wishes' = Append(wishes, c)
    /\ changes' = IF playing THEN changes + 1 ELSE changes
    /\ moment' = {}
    /\ UNCHANGED <<account, known, news, players, providers, characters, files>>

\* Mutant of Reloaded: as it was before /reload looked at the cache.
NotReloaded(p) == p

\* A logged-in player whose model is not in the cache is loaded again.
Reloaded(p) ==
    IF p.login /\ p.current \notin DOMAIN model_names' THEN [p EXCEPT !.current = NoModel] ELSE p

\* Model.rebuild of a script, after models were added to the directory.
Rebuild ==
    /\ playing
    /\ \E T \in SUBSET Models :
          /\ tree \subseteq T /\ tree' = T
          /\ model_names' =
                [m \in {m \in DOMAIN model_names : m \in T => model_names[m] = m} |->
                    model_names[m]]
    /\ players' = [u \in DOMAIN players |-> Reloaded(players[u])]
    /\ moment' = {}
    /\ UNCHANGED <<server, playing, providers, characters, loaded>>

Next ==
    \/ \E u \in Users : LogIn(u) \/ LogOut(u) \/ PatchFrame(u)
    \/ \E u \in Users, m \in Models : SetUserModelName(u, m)
    \/ \E u \in Users, c \in Channels : SetUserChannel(u, c)
    \/ SetMyChannel \/ IdleFrame \/ Rebuild
    \/ \E c \in Channels : ChangeChannel(c)

Spec == Init /\ [][Next]_vars

\* The main loop runs, patches arrive, the server serves.
FairSpec ==
    /\ Spec
    /\ WF_vars(IdleFrame) /\ WF_vars(SetMyChannel)
    /\ WF_vars(~playing /\ ChangeChannel(0))
    /\ \A u \in Users : WF_vars(news[u] # {} /\ PatchFrame(u))

-----------------------------------------------------------------------------
(* Every character refers to the provider of its user, and the other way   *)
(* round.  AddCharacter replaces a provider and CharacterManager::Add does *)
(* not replace a character, so adding one that is there already would      *)
(* leave a character that refers to a destroyed provider.                  *)
CharactersLinked ==
    /\ DOMAIN characters = DOMAIN providers
    /\ \A u \in DOMAIN characters : characters[u] = "live"

(* GameLoop::Draw and MiniMap look up the player of every character, and   *)
(* the player of this client, and use them without a test.  The client's   *)
(* own user, who comes by patches like everybody, never gets a second      *)
(* character.                                                              *)
CharactersHavePlayers ==
    \A u \in DOMAIN characters : u \in DOMAIN players /\ u # Me /\ Me \in DOMAIN players

(* Drawing a frame dereferences nothing that is gone: every character has  *)
(* its provider and its player, between any two steps of the main thread.  *)
CharactersUsable == CharactersLinked /\ CharactersHavePlayers

(* After every frame the users on this channel are shown, and with their   *)
(* own model if it is installed, even when it was added and /reload called *)
(* while they were shown with another.                                     *)
ShownAsInstalled ==
    "drawn" \in moment =>
        \A u \in DOMAIN players \ {Me} :
            LET p == players[u]
            IN  p.login /\ p.model # NoModel /\ p.channel = players[Me].channel =>
                    /\ u \in DOMAIN providers
                    /\ (p.model \in tree => providers[u] = p.model)

(* What the server knows of a user reaches the scene in the end.           *)
Visible(u) ==
    LET a == account[u]
    IN  a.login /\ a.model # NoModel /\ a.channel = account[Me].channel

SceneFollowsAccounts ==
    \A u \in Others :
        []<>(Visible(u) => /\ u \in DOMAIN providers
                           /\ (account[u].model \in tree => providers[u] = account[u].model))

(* The scene, on each thread that touches it, is well typed and usable.    *)
CharactersSound == TypeOK /\ CharactersUsable
=============================================================================
