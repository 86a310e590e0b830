-------------------------- MODULE CharactersProofs --------------------------
(***************************************************************************)
(* The characters and their providers stay linked, and have their players, *)
(* for any number of users, channels and models.  The step that matters is *)
(* Update: whoever it gives a character has just lost the one before.      *)
(* Then: the character shown is the one installed, since the cache of      *)
(* names is what Update reads and what a reload weeds.                     *)
(***************************************************************************)
EXTENDS Characters, TLAPS

PlayersType(ps) ==
    /\ DOMAIN ps \subseteq Users
    /\ ps \in [DOMAIN ps -> Player]

ServerType ==
    /\ account \in [Users -> Account]
    /\ known \in [Users -> SUBSET Property] /\ news \in [Users -> SUBSET Property]
    /\ changes \in Nat /\ wishes \in Seq(Channels) /\ playing \in BOOLEAN

ProvidersType ==
    /\ DOMAIN providers \subseteq Users
    /\ providers \in [DOMAIN providers -> Files]

FilesType ==
    /\ tree \subseteq Models /\ DOMAIN model_names \subseteq Models
    /\ model_names \in [DOMAIN model_names -> Files \ {Unknown}]

SceneType ==
    /\ PlayersType(players) /\ ProvidersType /\ FilesType
    /\ characters = [u \in DOMAIN characters |-> characters[u]]
    /\ loaded \subseteq Files /\ moment \subseteq {"drawn", "cleared"}

CharactersInv == ServerType /\ SceneType /\ CharactersLinked /\ CharactersHavePlayers

(* The parts say what TypeOK says: the type of characters follows from     *)
(* CharactersLinked.                                                       *)
LEMMA InvGivesType == CharactersInv => TypeOK
<1> SUFFICES ASSUME CharactersInv PROVE TypeOK
  OBVIOUS
<1>1. /\ DOMAIN characters \subseteq Users
      /\ characters \in [DOMAIN characters -> {"live", "dangling"}]
  BY DEF CharactersInv, SceneType, ProvidersType, CharactersLinked
<1> QED
  BY <1>1 DEF CharactersInv, ServerType, SceneType, PlayersType, ProvidersType, FilesType, TypeOK

-----------------------------------------------------------------------------
(* A player who gets a character had another model before: the test that   *)
(* is empty for him now is one that failed, or one Update has just reset.  *)
LEMMA ArrivingHaveChanged ==
    ASSUME NEW ps
    PROVE  Arriving(ps) \subseteq Changed(ps)
  BY DEF Arriving, Changed, Current

(* Applying a patch to a player gives a player.                            *)
LEMMA AppliedType ==
    ASSUME ServerType, PlayersType(players), NEW u \in Users, NEW P
    PROVE  Applied(u, P) \in Player
<1> DEFINE p == IF u \in DOMAIN players THEN players[u] ELSE NewPlayer
           l == IF "LOGIN" \in P THEN account[u].login ELSE p.login
           c == IF "CHANNEL" \in P THEN account[u].channel ELSE p.channel
           m == IF "MODEL_NAME" \in P THEN account[u].model
                ELSE IF "LOGIN" \in P /\ p.login /\ ~account[u].login THEN NoModel ELSE p.model
<1>1. p \in Player
  BY CharactersAssumption DEF PlayersType, NewPlayer, Player, Model
<1>2. account[u] \in Account
  BY DEF ServerType
<1>3. l \in BOOLEAN /\ c \in Channels /\ m \in Model
  BY <1>1, <1>2 DEF Player, Account, Model
<1>4. Applied(u, P) = [p EXCEPT !.login = l, !.channel = c, !.model = m]
  BY DEF Applied
<1> HIDE DEF p, l, c, m
<1> QED
  BY <1>1, <1>3, <1>4 DEF Player

(* The file of a name is a file, and it is remembered only if it is one of *)
(* an installed model.                                                     *)
LEMMA FileOfType ==
    ASSUME FilesType, NEW m
    PROVE  /\ FileOf(m) \in Files
           /\ m \in tree \cup Related => FileOf(m) \in Files \ {Unknown}
<1>1. CASE m \in DOMAIN model_names
  BY <1>1 DEF FileOf, FilesType
<1>2. CASE m \notin DOMAIN model_names
  BY <1>2, CharactersAssumption DEF FileOf, FilesType, Files
<1> QED
  BY <1>1, <1>2

LEMMA ResolvedType ==
    ASSUME FilesType, NEW names, names \subseteq Model
    PROVE  /\ DOMAIN Resolved(names) \subseteq Models
           /\ Resolved(names) \in [DOMAIN Resolved(names) -> Files \ {Unknown}]
<1> DEFINE D == DOMAIN model_names \cup {m \in names : m \in tree \cup Related}
<1>1. Resolved(names) = [m \in D |-> FileOf(m)]
  BY DEF Resolved
<1>2. D \subseteq Models
  BY CharactersAssumption DEF FilesType
<1>3. \A m \in D : FileOf(m) \in Files \ {Unknown}
  <2> SUFFICES ASSUME NEW m \in D PROVE FileOf(m) \in Files \ {Unknown}
    OBVIOUS
  <2>1. CASE m \in DOMAIN model_names
    BY <2>1 DEF FileOf, FilesType
  <2>2. CASE m \in tree \cup Related
    BY <2>2, FileOfType
  <2> QED
    BY <2>1, <2>2
<1> HIDE DEF D
<1> QED
  BY <1>1, <1>2, <1>3

-----------------------------------------------------------------------------
(* One run of Update, on players that hold those there were, keeps the     *)
(* scene together.                                                         *)
LEMMA UpdateKeeps ==
    ASSUME NEW ps, CharactersInv, PlayersType(ps), DOMAIN players \subseteq DOMAIN ps,
           Me \in DOMAIN ps, Update(ps), UNCHANGED tree
    PROVE  /\ SceneType' /\ CharactersLinked' /\ CharactersHavePlayers'
<1> DEFINE gone == Changed(ps) \cap DOMAIN providers
           new  == Arriving(ps)
           P    == (DOMAIN providers \ gone) \cup new
<1>0. FilesType /\ ProvidersType
  BY DEF CharactersInv, SceneType
<1>1. new \subseteq DOMAIN ps /\ new \subseteq Changed(ps) /\ Me \notin new
  BY ArrivingHaveChanged DEF Arriving, Stranger
<1>2. providers' = [u \in P |-> IF u \in new THEN FileOf(ps[u].model) ELSE providers[u]]
  BY DEF Update
<1>3. /\ DOMAIN characters' = P /\ \A u \in P : characters'[u] = "live"
      /\ characters' = [u \in P |-> characters'[u]]
  <2> DEFINE kept == DOMAIN characters \ gone
  <2>1. characters' = [u \in kept \cup new |->
                IF u \notin kept THEN "live"
                ELSE IF u \in gone \cup new THEN "dangling" ELSE characters[u]]
    BY DEF Update, Removed
  <2>2. kept = DOMAIN providers \ gone
    BY DEF CharactersInv, CharactersLinked
  <2>3. kept \cap (gone \cup new) = {}
    BY <1>1, <2>2
  <2>4. \A u \in kept : characters[u] = "live"
    BY DEF CharactersInv, CharactersLinked
  <2> HIDE DEF gone, new, kept
  <2>5. kept \cup new = P
    BY <2>2
  <2> QED
    BY <2>1, <2>3, <2>4, <2>5
<1>4. DOMAIN providers' = P
  BY <1>2
<1>5. CharactersLinked'
  BY <1>3, <1>4 DEF CharactersLinked
<1>6. DOMAIN players' = DOMAIN ps
  BY DEF Update
<1>7. CharactersHavePlayers'
  <2>1. \A u \in DOMAIN providers : u \in DOMAIN ps /\ u # Me
    BY DEF CharactersInv, CharactersLinked, CharactersHavePlayers
  <2>2. \A u \in P : u \in DOMAIN ps /\ u # Me
    BY <2>1, <1>1
  <2> QED
    BY <2>2, <1>3, <1>6 DEF CharactersHavePlayers
<1>8. ProvidersType'
  <2>1. P \subseteq Users
    BY <1>0, <1>1 DEF ProvidersType, PlayersType
  <2>2. ASSUME NEW u \in P
        PROVE  (IF u \in new THEN FileOf(ps[u].model) ELSE providers[u]) \in Files
    <3>1. CASE u \in new
      BY <3>1, <1>0, FileOfType
    <3>2. CASE u \notin new
      BY <3>2, <1>0 DEF ProvidersType
    <3> QED
      BY <3>1, <3>2
  <2> HIDE DEF P, new
  <2> QED
    BY <2>1, <2>2, <1>2, <1>4 DEF ProvidersType
<1>9. PlayersType(players')
  <2> DEFINE next(u) == [ps[u] EXCEPT
                !.current = IF u \in new THEN ps[u].model ELSE Current(ps, u)]
  <2>1. players' = [u \in DOMAIN ps |-> next(u)]
    BY DEF Update
  <2>2. ASSUME NEW u \in DOMAIN ps PROVE next(u) \in Player
    <3>1. ps[u] \in Player
      BY DEF PlayersType
    <3>2. Current(ps, u) \in Model /\ ps[u].model \in Model
      BY <3>1 DEF Current, Model, Player
    <3> QED
      BY <3>1, <3>2 DEF Player
  <2> HIDE DEF next
  <2> QED
    BY <2>1, <2>2 DEF PlayersType
<1>10. FilesType'
  <2> DEFINE names == {ps[u].model : u \in new}
  <2>1. names \subseteq Model
    BY <1>1 DEF PlayersType, Player
  <2>2. model_names' = Resolved(names)
    BY DEF Update
  <2> HIDE DEF names
  <2> QED
    BY <1>0, <2>1, <2>2, ResolvedType DEF FilesType
<1>11. loaded' \subseteq Files /\ moment' \subseteq {"drawn", "cleared"}
  <2>1. InUse(providers') \subseteq Files
    BY <1>8 DEF InUse, ProvidersType
  <2>2. loaded \subseteq Files
    BY DEF CharactersInv, SceneType
  <2> QED
    BY <2>1, <2>2 DEF Update
<1> QED
  BY <1>3, <1>5, <1>7, <1>8, <1>9, <1>10, <1>11 DEF SceneType

(* A frame keeps the invariant, if the patch it applied left players.      *)
LEMMA FrameKeeps ==
    ASSUME NEW ps, CharactersInv, PlayersType(ps), DOMAIN players \subseteq DOMAIN ps,
           Frame(ps), news' \in [Users -> SUBSET Property]
    PROVE  CharactersInv'
<1>1. ServerType'
  BY DEF CharactersInv, ServerType, Frame
<1>2. SceneType' /\ CharactersLinked' /\ CharactersHavePlayers'
  <2>1. CASE Updates(ps)
    BY <2>1, UpdateKeeps DEF Frame, Updates, Myself
  <2>2. CASE ~Updates(ps)
    <3>1. /\ players' = ps /\ moment' = {}
          /\ UNCHANGED <<providers, characters, model_names, loaded, tree>>
      BY <2>2 DEF Frame
    <3> QED
      BY <3>1 DEF CharactersInv, SceneType, ProvidersType, FilesType,
                  CharactersLinked, CharactersHavePlayers
  <2> QED
    BY <2>1, <2>2
<1> QED
  BY <1>1, <1>2 DEF CharactersInv

-----------------------------------------------------------------------------
LEMMA InitInv == Init => CharactersInv
<1> SUFFICES ASSUME Init PROVE CharactersInv
  OBVIOUS
<1>1. ServerType
  <2>1. account \in [Users -> Account]
    BY CharactersAssumption DEF Init, Account, Model
  <2>2. known \in [Users -> SUBSET Property] /\ news = known
    BY DEF Init, Property
  <2>3. changes = 0 /\ wishes = <<>> /\ playing \in BOOLEAN
    BY DEF Init
  <2>4. changes \in Nat /\ wishes \in Seq(Channels)
    BY <2>3
  <2> QED
    BY <2>1, <2>2, <2>3, <2>4 DEF ServerType
<1>2. SceneType
  BY DEF Init, SceneType, PlayersType, ProvidersType, FilesType
<1> QED
  BY <1>1, <1>2 DEF Init, CharactersInv, CharactersLinked, CharactersHavePlayers

(* What the server does changes nothing of the scene.                      *)
LEMMA SceneStays ==
    ASSUME CharactersInv, UNCHANGED <<scene, files>>, moment' \subseteq {"drawn", "cleared"}
    PROVE  SceneType' /\ CharactersLinked' /\ CharactersHavePlayers'
  BY DEF CharactersInv, SceneType, PlayersType, ProvidersType, FilesType,
         CharactersLinked, CharactersHavePlayers, scene, files

LEMMA ChangeKeeps ==
    ASSUME CharactersInv, NEW u \in Users, NEW p \in Property, NEW new \in Account,
           Change(u, p, new), UNCHANGED wishes
    PROVE  CharactersInv'
<1>1. ServerType'
  BY DEF CharactersInv, ServerType, Change
<1>2. moment' \subseteq {"drawn", "cleared"}
  BY DEF Change, CharactersInv, SceneType
<1> QED
  BY <1>1, <1>2, SceneStays DEF CharactersInv, Change

LEMMA NextInv == CharactersInv /\ [Next]_vars => CharactersInv'
<1> SUFFICES ASSUME CharactersInv, [Next]_vars PROVE CharactersInv'
  OBVIOUS
<1>0. ServerType /\ SceneType /\ \A u \in Users : account[u] \in Account
  BY DEF CharactersInv, ServerType
<1>1. ASSUME NEW u \in Users, LogIn(u) PROVE CharactersInv'
  <2>1. [account[u] EXCEPT !.login = TRUE] \in Account
    BY <1>0 DEF Account
  <2> QED
    BY <1>1, <2>1, ChangeKeeps DEF LogIn, Property
<1>2. ASSUME NEW u \in Users, LogOut(u) PROVE CharactersInv'
  <2>1. [account[u] EXCEPT !.login = FALSE] \in Account
    BY <1>0 DEF Account
  <2> QED
    BY <1>2, <2>1, ChangeKeeps DEF LogOut, Property
<1>3. ASSUME NEW u \in Users, NEW m \in Models, SetUserModelName(u, m) PROVE CharactersInv'
  <2>1. [account[u] EXCEPT !.model = m] \in Account
    BY <1>0 DEF Account, Model
  <2> QED
    BY <1>3, <2>1, ChangeKeeps DEF SetUserModelName, Property
<1>4. ASSUME NEW u \in Users, NEW c \in Channels, SetUserChannel(u, c) PROVE CharactersInv'
  <2>1. [account[u] EXCEPT !.channel = c] \in Account
    BY <1>0 DEF Account
  <2> QED
    BY <1>4, <2>1, ChangeKeeps DEF SetUserChannel, Property
<1>5. CASE SetMyChannel
  <2>1. Head(wishes) \in Channels /\ Tail(wishes) \in Seq(Channels)
    BY <1>0, <1>5 DEF SetMyChannel, ServerType
  <2>2. ServerType'
    <3>1. account' \in [Users -> Account]
      BY <1>0, <1>5, <2>1 DEF SetMyChannel, ServerType, Account
    <3>2. known' \in [Users -> SUBSET Property] /\ news' \in [Users -> SUBSET Property]
      BY <1>0, <1>5 DEF SetMyChannel, ServerType, Property
    <3> QED
      BY <1>0, <1>5, <2>1, <3>1, <3>2 DEF SetMyChannel, ServerType
  <2>3. moment' \subseteq {"drawn", "cleared"}
    BY <1>0, <1>5 DEF SetMyChannel, SceneType
  <2> QED
    BY <1>5, <2>2, <2>3, SceneStays DEF SetMyChannel, CharactersInv
<1>6. CASE IdleFrame
  BY <1>0, <1>6, FrameKeeps DEF IdleFrame, ServerType, SceneType
<1>7. ASSUME NEW u \in Users, PatchFrame(u) PROVE CharactersInv'
  <2>1. PICK more \in SUBSET known[u] :
            Frame([v \in DOMAIN players \cup {u} |->
                      IF v = u THEN Applied(u, news[u] \cup more) ELSE players[v]])
    BY <1>7 DEF PatchFrame
  <2> DEFINE ps == [v \in DOMAIN players \cup {u} |->
                      IF v = u THEN Applied(u, news[u] \cup more) ELSE players[v]]
  <2>2. Applied(u, news[u] \cup more) \in Player
    BY <1>0, AppliedType DEF SceneType
  <2>3. PlayersType(ps) /\ DOMAIN players \subseteq DOMAIN ps
    <3>1. PlayersType(players)
      BY <1>0 DEF SceneType
    <3> QED
      BY <2>2, <3>1 DEF PlayersType
  <2>4. news' \in [Users -> SUBSET Property]
    BY <1>0, <1>7 DEF PatchFrame, ServerType
  <2> HIDE DEF ps
  <2> QED
    BY <2>1, <2>3, <2>4, FrameKeeps DEF ps
<1>8. ASSUME NEW c \in Channels, ChangeChannel(c) PROVE CharactersInv'
  <2>1. ServerType'
    BY <1>0, <1>8 DEF ChangeChannel, ServerType
  <2>2. InUse(providers) \subseteq Files
    BY <1>0 DEF InUse, SceneType, ProvidersType
  <2> QED
    BY <1>0, <1>8, <2>1, <2>2 DEF ChangeChannel, files, CharactersInv, SceneType, ProvidersType,
         PlayersType, FilesType, CharactersLinked, CharactersHavePlayers
<1>9. CASE Rebuild
  <2>1. ServerType'
    BY <1>0, <1>9 DEF Rebuild, ServerType, server
  <2>2. PlayersType(players') /\ DOMAIN players' = DOMAIN players
    <3>1. \A p \in Player : Reloaded(p) \in Player
      BY DEF Reloaded, Player, Model
    <3>2. players' = [u \in DOMAIN players |-> Reloaded(players[u])]
      BY <1>9 DEF Rebuild
    <3> QED
      BY <1>0, <3>1, <3>2 DEF SceneType, PlayersType
  <2>3. FilesType'
    BY <1>0, <1>9 DEF Rebuild, SceneType, FilesType
  <2>4. /\ UNCHANGED <<providers, characters, loaded>>
        /\ moment' \subseteq {"drawn", "cleared"}
    BY <1>9 DEF Rebuild
  <2> QED
    BY <1>0, <2>1, <2>2, <2>3, <2>4 DEF CharactersInv, SceneType, ProvidersType,
         CharactersLinked, CharactersHavePlayers
<1>10. CASE UNCHANGED vars
  <2>1. ServerType'
    BY <1>0, <1>10 DEF vars, server, ServerType
  <2>2. moment' \subseteq {"drawn", "cleared"}
    BY <1>0, <1>10 DEF vars, SceneType
  <2> QED
    BY <1>10, <2>1, <2>2, SceneStays DEF vars, CharactersInv
<1> QED
  BY <1>1, <1>2, <1>3, <1>4, <1>5, <1>6, <1>7, <1>8, <1>9, <1>10 DEF Next

(* The invariant of which the theorems below are parts: the scene is well  *)
(* typed, its characters are linked and have their players.                *)
THEOREM Invariance == Spec => []CharactersInv
<1> QED
  BY InitInv, NextInv, PTL DEF Spec

(* The values the main thread keeps are those it means to keep; the table  *)
(* of resolved names never holds a name that was not found.                *)
THEOREM TypeCorrect == Spec => []TypeOK
<1> QED
  BY InvGivesType, Invariance, PTL

(* Every character refers to the live provider of its user, and whoever is *)
(* drawn has a player, the client's own user included.  It would not if    *)
(* Update added a character without having removed the one before.         *)
THEOREM Usable == Spec => []CharactersUsable
<1>1. CharactersInv => CharactersUsable
  BY DEF CharactersInv, CharactersUsable
<1> QED
  BY <1>1, Invariance, PTL

(* The scene is sound for any sets of users, channels and models.          *)
THEOREM CharactersAreSound == Spec => []CharactersSound
  BY TypeCorrect, Usable, PTL DEF CharactersSound
-----------------------------------------------------------------------------
(* Why everybody on the channel is shown, and as installed.                *)

(* A name of an installed model is never remembered for another file.      *)
NamesAsInstalled ==
    \A m \in DOMAIN model_names \cap tree : model_names[m] = m

(* A user comes to the client with his login, which nobody does twice: a   *)
(* player who has left stays so, whatever is left of his character.        *)
LoginsKnown ==
    \A u \in Users :
        /\ account[u].login \/ known[u] # {} \/ u = Me => "LOGIN" \in known[u]
        /\ u \notin DOMAIN players => news[u] = known[u]
        /\ u \in DOMAIN players => /\ "LOGIN" \in known[u]
                                   /\ account[u].login => players[u].login

(* The character of p, a player that has one, is of the file the cache     *)
(* holds for its name, and every name that stands for a model is there.    *)
LoadedFor(u, p, provided, names, installed) ==
    p.login /\ p.current # NoModel =>
        /\ u \in DOMAIN provided
        /\ p.current \in installed \cup Related => p.current \in DOMAIN names
        /\ p.current \in DOMAIN names => provided[u] = names[p.current]

LoadedFromNames ==
    \A u \in DOMAIN players \ {Me} :
        LoadedFor(u, players[u], providers, model_names, tree)

(* Update has looked at everybody on the channel.                          *)
DrawnAreCurrent ==
    "drawn" \in moment =>
        \A u \in DOMAIN players \ {Me} :
            LET p == players[u]
            IN  p.login /\ p.model # NoModel /\ p.channel = players[Me].channel =>
                    p.current = p.model

ShownInv == NamesAsInstalled /\ LoginsKnown /\ LoadedFromNames /\ DrawnAreCurrent

(* Resolving names forgets none, finds every installed one, and leaves     *)
(* what the cache held as it was.                                          *)
LEMMA ResolvedKeeps ==
    ASSUME NamesAsInstalled, NEW names
    PROVE  LET R == Resolved(names)
           IN  /\ DOMAIN R = DOMAIN model_names \cup {m \in names : m \in tree \cup Related}
               /\ \A m \in DOMAIN model_names : R[m] = model_names[m]
               /\ \A m \in DOMAIN R : R[m] = FileOf(m)
               /\ \A m \in DOMAIN R \cap tree : R[m] = m
<1> DEFINE D == DOMAIN model_names \cup {m \in names : m \in tree \cup Related}
<1>1. Resolved(names) = [m \in D |-> FileOf(m)]
  BY DEF Resolved
<1>2. \A m \in DOMAIN model_names : FileOf(m) = model_names[m]
  BY DEF FileOf
<1>3. \A m \in tree : FileOf(m) = m
  BY DEF FileOf, NamesAsInstalled
<1> HIDE DEF D
<1>4. DOMAIN Resolved(names) = D /\ \A m \in D : Resolved(names)[m] = FileOf(m)
  BY <1>1
<1> QED
  BY <1>2, <1>3, <1>4 DEF D

(* Update leaves every player's character loaded for his name, and shows   *)
(* everybody who is on the channel with the model he has.                  *)
LEMMA UpdateShows ==
    ASSUME CharactersInv, NamesAsInstalled, NEW ps, PlayersType(ps), Me \in DOMAIN ps,
           \A u \in DOMAIN ps \ {Me} : LoadedFor(u, ps[u], providers, model_names, tree),
           Update(ps), UNCHANGED tree
    PROVE  /\ NamesAsInstalled' /\ LoadedFromNames' /\ DrawnAreCurrent'
           /\ DOMAIN players' = DOMAIN ps
           /\ \A u \in DOMAIN ps : players'[u].login = ps[u].login
<1> DEFINE gone  == Changed(ps) \cap DOMAIN providers
           new   == Arriving(ps)
           names == {ps[u].model : u \in new}
           after(u) == [ps[u] EXCEPT
                           !.current = IF u \in new THEN ps[u].model ELSE Current(ps, u)]
<1>1. /\ players' = [u \in DOMAIN ps |-> after(u)]
      /\ providers' = [u \in (DOMAIN providers \ gone) \cup new |->
                IF u \in new THEN FileOf(ps[u].model) ELSE providers[u]]
      /\ model_names' = Resolved(names)
  BY DEF Update
<1>2. ASSUME NEW u \in DOMAIN ps
      PROVE  /\ after(u).login = ps[u].login
             /\ after(u).channel = ps[u].channel
             /\ after(u).model = ps[u].model
             /\ after(u).current = IF u \in new THEN ps[u].model ELSE Current(ps, u)
  <2>1. ps[u] \in Player
    BY DEF PlayersType
  <2> HIDE DEF new
  <2> QED
    BY <2>1 DEF Player
<1>3. /\ DOMAIN model_names' = DOMAIN model_names \cup {m \in names : m \in tree \cup Related}
      /\ \A m \in DOMAIN model_names : model_names'[m] = model_names[m]
      /\ \A m \in DOMAIN model_names' : model_names'[m] = FileOf(m)
      /\ \A m \in DOMAIN model_names' \cap tree : model_names'[m] = m
  <2> HIDE DEF names
  <2> QED
    BY <1>1, ResolvedKeeps
<1>4. NamesAsInstalled'
  BY <1>3 DEF NamesAsInstalled
<1>5. /\ DOMAIN players' = DOMAIN ps
      /\ \A u \in DOMAIN ps : players'[u] = after(u)
  <2> HIDE DEF after
  <2> QED
    BY <1>1
<1>6. ASSUME NEW u \in DOMAIN ps \ {Me}
      PROVE  LoadedFor(u, after(u), providers', model_names', tree)
  <2> SUFFICES ASSUME ps[u].login, after(u).current # NoModel
               PROVE  /\ u \in DOMAIN providers'
                      /\ after(u).current \in tree \cup Related =>
                            after(u).current \in DOMAIN model_names'
                      /\ after(u).current \in DOMAIN model_names' =>
                            providers'[u] = model_names'[after(u).current]
    <3> HIDE DEF after
    <3> QED
      BY <1>2 DEF LoadedFor
  <2>1. CASE u \in new
    <3>1. after(u).current = ps[u].model /\ ps[u].model \in names
      BY <1>2, <2>1
    <3>2. u \in DOMAIN providers' /\ providers'[u] = FileOf(ps[u].model)
      <4> HIDE DEF new, gone
      <4> QED
        BY <1>1, <2>1
    <3> HIDE DEF after, names
    <3> QED
      BY <1>3, <3>1, <3>2
  <2>2. CASE u \notin new
    <3>1. after(u).current = ps[u].current /\ u \notin Changed(ps) /\ ps[u].current # NoModel
      <4> HIDE DEF new
      <4> QED
        BY <1>2, <2>2 DEF Current
    <3>2. /\ u \in DOMAIN providers
          /\ ps[u].current \in tree \cup Related => ps[u].current \in DOMAIN model_names
          /\ ps[u].current \in DOMAIN model_names => providers[u] = model_names[ps[u].current]
      BY <3>1 DEF LoadedFor
    <3>3. u \in DOMAIN providers' /\ providers'[u] = providers[u]
      <4>1. u \in DOMAIN providers \ gone
        BY <3>1, <3>2
      <4> HIDE DEF new, gone
      <4> QED
        BY <1>1, <2>2, <4>1
    <3>4. ps[u].current \in DOMAIN model_names' => ps[u].current \in DOMAIN model_names
      <4> HIDE DEF names
      <4> QED
        BY <1>3, <3>2
    <3> HIDE DEF after, names
    <3> QED
      BY <1>3, <3>1, <3>2, <3>3, <3>4
  <2> QED
    BY <2>1, <2>2
<1>7. LoadedFromNames'
  <2> HIDE DEF after
  <2>1. \A u \in DOMAIN players' \ {Me} :
            LoadedFor(u, players'[u], providers', model_names', tree')
    BY <1>5, <1>6
  <2> QED
    BY <2>1 DEF LoadedFromNames, LoadedFor
<1>8. DrawnAreCurrent'
  <2> SUFFICES ASSUME NEW u \in DOMAIN ps \ {Me}, ps[u].login, ps[u].model # NoModel,
                      ps[u].channel = ps[Me].channel
               PROVE  after(u).current = ps[u].model
    <3> HIDE DEF after
    <3> QED
      BY <1>2, <1>5 DEF DrawnAreCurrent
  <2>1. CASE u \in new
    BY <1>2, <2>1
  <2>2. CASE u \notin new
    <3>1. after(u).current = Current(ps, u)
      BY <1>2, <2>2
    <3>2. Current(ps, u) # NoModel
      BY <2>2 DEF Arriving, Stranger
    <3>3. u \notin Changed(ps) /\ Current(ps, u) = ps[u].current
      BY <3>2 DEF Current
    <3>4. ps[u].current = ps[u].model
      BY <3>3 DEF Changed
    <3> HIDE DEF after
    <3> QED
      BY <3>1, <3>3, <3>4
  <2> QED
    BY <2>1, <2>2
<1> HIDE DEF after
<1> QED
  BY <1>2, <1>4, <1>5, <1>7, <1>8

(* So does a frame, with the players its command left.                     *)
LEMMA FrameShows ==
    ASSUME CharactersInv, ShownInv, NEW ps, PlayersType(ps),
           \A u \in DOMAIN ps \ {Me} : LoadedFor(u, ps[u], providers, model_names, tree),
           Frame(ps)
    PROVE  /\ NamesAsInstalled' /\ LoadedFromNames' /\ DrawnAreCurrent'
           /\ DOMAIN players' = DOMAIN ps
           /\ \A u \in DOMAIN ps : players'[u].login = ps[u].login
<1>1. UNCHANGED tree /\ NamesAsInstalled
  BY DEF Frame, ShownInv
<1>2. CASE Updates(ps)
  BY <1>1, <1>2, UpdateShows DEF Frame, Updates, Myself
<1>3. CASE ~Updates(ps)
  <2>1. players' = ps /\ moment' = {} /\ UNCHANGED <<providers, model_names, tree>>
    BY <1>3 DEF Frame
  <2>2. NamesAsInstalled' /\ DrawnAreCurrent'
    BY <1>1, <2>1 DEF NamesAsInstalled, DrawnAreCurrent
  <2>3. LoadedFromNames'
    BY <2>1 DEF LoadedFromNames, LoadedFor
  <2> QED
    BY <2>1, <2>2, <2>3
<1> QED
  BY <1>2, <1>3

(* A patch of a user who has a player leaves him logged in only if he was; *)
(* it says of a user who has none whether he is.                           *)
LEMMA PatchKnowsLogin ==
    ASSUME CharactersInv, LoginsKnown, NEW u \in Users, known[u] # {},
           NEW more \in SUBSET known[u]
    PROVE  LET p == Applied(u, news[u] \cup more)
           IN  /\ account[u].login => p.login
               /\ u \notin DOMAIN players => p.current = NoModel
               /\ u \in DOMAIN players => /\ p.current = players[u].current
                                          /\ p.login => players[u].login
<1> DEFINE P == news[u] \cup more
           q == IF u \in DOMAIN players THEN players[u] ELSE NewPlayer
<1>1. q \in Player
  BY CharactersAssumption DEF CharactersInv, SceneType, PlayersType, NewPlayer, Player, Model
<1>2. /\ Applied(u, P).login = IF "LOGIN" \in P THEN account[u].login ELSE q.login
      /\ Applied(u, P).current = q.current
  BY <1>1 DEF Applied, Player
<1>3. /\ "LOGIN" \in known[u]
      /\ u \notin DOMAIN players => "LOGIN" \in P
      /\ u \in DOMAIN players => (account[u].login => players[u].login)
  BY DEF LoginsKnown
<1>4. u \notin DOMAIN players => q.current = NoModel
  BY DEF NewPlayer
<1> HIDE DEF P
<1>5. CASE u \in DOMAIN players
  <2>1. q = players[u]
    BY <1>5
  <2> HIDE DEF q
  <2> QED
    BY <1>2, <1>3, <1>5, <2>1 DEF P
<1>6. CASE u \notin DOMAIN players
  <2> HIDE DEF q
  <2> QED
    BY <1>2, <1>3, <1>4, <1>6 DEF P
<1> QED
  BY <1>5, <1>6

LEMMA PatchShows ==
    ASSUME CharactersInv, ShownInv, NEW u \in Users, PatchFrame(u)
    PROVE  ShownInv'
<1>1. PICK more \in SUBSET known[u] :
          Frame([v \in DOMAIN players \cup {u} |->
                    IF v = u THEN Applied(u, news[u] \cup more) ELSE players[v]])
  BY DEF PatchFrame
<1> DEFINE p  == Applied(u, news[u] \cup more)
           ps == [v \in DOMAIN players \cup {u} |-> IF v = u THEN p ELSE players[v]]
<1>2. /\ account[u].login => p.login
      /\ u \notin DOMAIN players => p.current = NoModel
      /\ u \in DOMAIN players => p.current = players[u].current /\ (p.login => players[u].login)
  BY PatchKnowsLogin DEF PatchFrame, ShownInv
<1>3. p \in Player /\ PlayersType(players)
  BY AppliedType DEF CharactersInv, SceneType
<1> HIDE DEF p
<1>4. PlayersType(ps)
  BY <1>3 DEF PlayersType
<1>5. ASSUME NEW v \in DOMAIN ps \ {Me}
      PROVE  LoadedFor(v, ps[v], providers, model_names, tree)
  <2>1. v \in DOMAIN players => LoadedFor(v, players[v], providers, model_names, tree)
    BY DEF ShownInv, LoadedFromNames
  <2>2. CASE v = u
    BY <1>2, <2>1, <2>2 DEF LoadedFor
  <2>3. CASE v # u
    BY <2>1, <2>3
  <2> QED
    BY <2>2, <2>3
<1>6. /\ NamesAsInstalled' /\ LoadedFromNames' /\ DrawnAreCurrent'
      /\ DOMAIN players' = DOMAIN ps
      /\ \A v \in DOMAIN ps : players'[v].login = ps[v].login
  <2>1. Frame(ps)
    BY <1>1 DEF p
  <2> HIDE DEF ps
  <2> QED
    BY <1>4, <1>5, <2>1, FrameShows
<1>7. LoginsKnown'
  <2>1. UNCHANGED <<account, known>> /\ news' = [news EXCEPT ![u] = {}] /\ known[u] # {}
    BY DEF PatchFrame, Frame
  <2> SUFFICES ASSUME NEW v \in Users
               PROVE  /\ account[v].login \/ known[v] # {} \/ v = Me => "LOGIN" \in known[v]
                      /\ v \notin DOMAIN ps => news'[v] = known[v]
                      /\ v \in DOMAIN ps => /\ "LOGIN" \in known[v]
                                            /\ account[v].login => ps[v].login
    BY <1>6, <2>1 DEF LoginsKnown
  <2>2. /\ account[v].login \/ known[v] # {} \/ v = Me => "LOGIN" \in known[v]
        /\ v \notin DOMAIN players => news[v] = known[v]
        /\ v \in DOMAIN players => /\ "LOGIN" \in known[v]
                                   /\ account[v].login => players[v].login
    BY DEF ShownInv, LoginsKnown
  <2>3. v # u => news'[v] = news[v]
    BY <2>1 DEF CharactersInv, ServerType
  <2> QED
    BY <1>2, <2>1, <2>2, <2>3
<1> QED
  BY <1>6, <1>7 DEF ShownInv

(* What the server does leaves the scene, and an account that changes has  *)
(* been logged in: nobody logs in again.                                   *)
LEMMA ServerShows ==
    ASSUME CharactersInv, ShownInv, UNCHANGED <<scene, files, moment>>, LoginsKnown'
    PROVE  ShownInv'
  BY DEF ShownInv, NamesAsInstalled, LoadedFromNames, LoadedFor, DrawnAreCurrent, scene, files

LEMMA ChangeKnowsLogin ==
    ASSUME CharactersInv, ShownInv, NEW u \in Users, NEW p, NEW new,
           Change(u, p, new),
           p = "LOGIN" \/ "LOGIN" \in known[u],
           new.login => account[u].login \/ "LOGIN" \notin known[u]
    PROVE  ShownInv'
<1>1. /\ account' = [account EXCEPT ![u] = new]
      /\ known' = [known EXCEPT ![u] = @ \cup {p}]
      /\ news' = [news EXCEPT ![u] = @ \cup {p}]
      /\ UNCHANGED <<scene, files, moment>>
  BY DEF Change
<1>2. LoginsKnown'
  <2> SUFFICES ASSUME NEW v \in Users
               PROVE  /\ account'[v].login \/ known'[v] # {} \/ v = Me => "LOGIN" \in known'[v]
                      /\ v \notin DOMAIN players => news'[v] = known'[v]
                      /\ v \in DOMAIN players => /\ "LOGIN" \in known'[v]
                                                 /\ account'[v].login => players[v].login
    BY <1>1 DEF LoginsKnown, scene
  <2>1. /\ account[v].login \/ known[v] # {} \/ v = Me => "LOGIN" \in known[v]
        /\ v \notin DOMAIN players => news[v] = known[v]
        /\ v \in DOMAIN players => /\ "LOGIN" \in known[v]
                                   /\ account[v].login => players[v].login
    BY DEF ShownInv, LoginsKnown
  <2>2. account \in [Users -> Account] /\ known \in [Users -> SUBSET Property]
        /\ news \in [Users -> SUBSET Property]
    BY DEF CharactersInv, ServerType
  <2>3. CASE v # u
    <3>1. account'[v] = account[v] /\ known'[v] = known[v] /\ news'[v] = news[v]
      BY <1>1, <2>2, <2>3
    <3> QED
      BY <2>1, <3>1
  <2>4. CASE v = u
    <3>1. /\ account'[v] = new
          /\ known'[v] = known[v] \cup {p} /\ news'[v] = news[v] \cup {p}
      BY <1>1, <2>2, <2>4
    <3> QED
      BY <2>1, <2>4, <3>1
  <2> QED
    BY <2>3, <2>4
<1> QED
  BY <1>1, <1>2, ServerShows

LEMMA ShownInvInit == Init => ShownInv
<1> SUFFICES ASSUME Init PROVE ShownInv
  OBVIOUS
<1>1. NamesAsInstalled /\ LoadedFromNames /\ DrawnAreCurrent
  BY DEF Init, NamesAsInstalled, LoadedFromNames, DrawnAreCurrent
<1>2. LoginsKnown
  BY DEF Init, LoginsKnown
<1> QED
  BY <1>1, <1>2 DEF ShownInv

LEMMA ShownInvNext == CharactersInv /\ ShownInv /\ [Next]_vars => ShownInv'
<1> SUFFICES ASSUME CharactersInv, ShownInv, [Next]_vars PROVE ShownInv'
  OBVIOUS
<1>0. /\ \A u \in Users : account[u] \in Account
      /\ \A u \in Users : account[u].login => "LOGIN" \in known[u]
  BY DEF CharactersInv, ServerType, ShownInv, LoginsKnown
<1>1. ASSUME NEW u \in Users, LogIn(u) PROVE ShownInv'
  BY <1>1, ChangeKnowsLogin DEF LogIn
<1>2. ASSUME NEW u \in Users, LogOut(u) PROVE ShownInv'
  <2>1. account[u].login
    BY <1>2 DEF LogOut
  <2> QED
    BY <1>2, <2>1, ChangeKnowsLogin DEF LogOut
<1>3. ASSUME NEW u \in Users, NEW m \in Models, SetUserModelName(u, m) PROVE ShownInv'
  <2>1. account[u].login
    BY <1>3 DEF SetUserModelName
  <2> QED
    BY <1>0, <1>3, <2>1, ChangeKnowsLogin DEF SetUserModelName
<1>4. ASSUME NEW u \in Users, NEW c \in Channels, SetUserChannel(u, c) PROVE ShownInv'
  <2>1. account[u].login
    BY <1>4 DEF SetUserChannel
  <2> QED
    BY <1>0, <1>4, <2>1, ChangeKnowsLogin DEF SetUserChannel
<1>7. ASSUME NEW u \in Users, PatchFrame(u) PROVE ShownInv'
  BY <1>7, PatchShows
<1>6. CASE IdleFrame
  <2>1. PlayersType(players)
    BY DEF CharactersInv, SceneType
  <2>2. /\ NamesAsInstalled' /\ LoadedFromNames' /\ DrawnAreCurrent'
        /\ DOMAIN players' = DOMAIN players
        /\ \A u \in DOMAIN players : players'[u].login = players[u].login
    BY <1>6, <2>1, FrameShows DEF IdleFrame, ShownInv, LoadedFromNames
  <2>3. UNCHANGED <<account, known, news>>
    BY <1>6 DEF IdleFrame, Frame
  <2>4. LoginsKnown'
    BY <2>2, <2>3 DEF ShownInv, LoginsKnown
  <2> QED
    BY <2>2, <2>4 DEF ShownInv
<1>8. ASSUME NEW c \in Channels, ChangeChannel(c) PROVE ShownInv'
  <2>1. /\ UNCHANGED <<account, known, news, players, providers, model_names, tree>>
        /\ moment' = {}
    BY <1>8 DEF ChangeChannel, files
  <2> QED
    BY <2>1 DEF ShownInv, NamesAsInstalled, LoginsKnown, LoadedFromNames, LoadedFor,
         DrawnAreCurrent
<1>5. CASE SetMyChannel
  <2> DEFINE told == account[Me].channel # Head(wishes) \/ "CHANNEL" \notin known[Me]
  <2>1. /\ account' = [account EXCEPT ![Me].channel = Head(wishes)]
        /\ known' = [known EXCEPT ![Me] = @ \cup {"CHANNEL"}]
        /\ news' = IF told THEN [news EXCEPT ![Me] = @ \cup {"CHANNEL"}] ELSE news
        /\ UNCHANGED <<scene, files, moment>>
    BY <1>5 DEF SetMyChannel
  <2> SUFFICES ASSUME NEW v \in Users
               PROVE  /\ account'[v].login \/ known'[v] # {} \/ v = Me => "LOGIN" \in known'[v]
                      /\ v \notin DOMAIN players => news'[v] = known'[v]
                      /\ v \in DOMAIN players => /\ "LOGIN" \in known'[v]
                                                 /\ account'[v].login => players[v].login
    <3>1. LoginsKnown'
      BY <2>1 DEF LoginsKnown, scene
    <3> QED
      BY <2>1, <3>1, ServerShows
  <2>2. /\ account[v].login \/ known[v] # {} \/ v = Me => "LOGIN" \in known[v]
        /\ v \notin DOMAIN players => news[v] = known[v]
        /\ v \in DOMAIN players => /\ "LOGIN" \in known[v]
                                   /\ account[v].login => players[v].login
    BY DEF ShownInv, LoginsKnown
  <2>3. /\ account \in [Users -> Account] /\ known \in [Users -> SUBSET Property]
        /\ news \in [Users -> SUBSET Property]
    BY DEF CharactersInv, ServerType
  <2>4. account'[v].login = account[v].login
    <3>1. CASE v = Me
      BY <2>1, <2>3, <3>1 DEF Account
    <3>2. CASE v # Me
      BY <2>1, <2>3, <3>2
    <3> QED
      BY <3>1, <3>2
  <2>5. CASE v # Me
    <3>1. known'[v] = known[v] /\ news'[v] = news[v]
      BY <2>1, <2>3, <2>5
    <3> QED
      BY <2>2, <2>4, <3>1
  <2>6. CASE v = Me
    <3>1. known'[v] = known[v] \cup {"CHANNEL"}
      BY <2>1, <2>3, <2>6
    <3>2. news'[v] = IF told THEN news[v] \cup {"CHANNEL"} ELSE news[v]
      BY <2>1, <2>3, <2>6
    <3>3. ~told => known[v] = known[v] \cup {"CHANNEL"}
      BY <2>6
    <3>4. "LOGIN" \in known[v]
      BY <2>6 DEF ShownInv, LoginsKnown
    <3> HIDE DEF told
    <3> QED
      BY <2>2, <2>4, <3>1, <3>2, <3>3, <3>4
  <2> QED
    BY <2>5, <2>6
<1>9. CASE Rebuild
  <2>1. /\ UNCHANGED <<account, known, news, providers>> /\ moment' = {}
        /\ players' = [u \in DOMAIN players |-> Reloaded(players[u])]
        /\ model_names' = [m \in {m \in DOMAIN model_names :
                                     m \in tree' => model_names[m] = m} |-> model_names[m]]
    BY <1>9 DEF Rebuild, server
  <2>2. NamesAsInstalled' /\ DrawnAreCurrent'
    BY <2>1 DEF NamesAsInstalled, DrawnAreCurrent
  <2>3. ASSUME NEW u \in DOMAIN players
        PROVE  /\ players'[u].login = players[u].login
               /\ players'[u].current # NoModel => players'[u].current = players[u].current
               /\ players[u].login /\ players'[u].current # NoModel =>
                      players'[u].current \in DOMAIN model_names'
    <3>1. players[u] \in Player
      BY DEF CharactersInv, SceneType, PlayersType
    <3>2. players'[u] = Reloaded(players[u])
      BY <2>1
    <3> QED
      BY <3>1, <3>2 DEF Reloaded, Player
  <2>4. DOMAIN players' = DOMAIN players
    BY <2>1
  <2>5. LoadedFromNames'
    <3> SUFFICES ASSUME NEW u \in DOMAIN players \ {Me},
                        players'[u].login, players'[u].current # NoModel
                 PROVE  /\ u \in DOMAIN providers
                        /\ players'[u].current \in DOMAIN model_names'
                        /\ providers[u] = model_names'[players'[u].current]
      BY <2>1, <2>4 DEF LoadedFromNames, LoadedFor
    <3>1. /\ players[u].login /\ players[u].current # NoModel
          /\ players'[u].current = players[u].current
          /\ players[u].current \in DOMAIN model_names'
      BY <2>3
    <3>2. /\ players[u].current \in DOMAIN model_names
          /\ model_names'[players[u].current] = model_names[players[u].current]
      BY <2>1, <3>1
    <3>3. LoadedFor(u, players[u], providers, model_names, tree)
      BY DEF ShownInv, LoadedFromNames
    <3> QED
      BY <3>1, <3>2, <3>3 DEF LoadedFor
  <2>6. LoginsKnown'
    BY <2>1, <2>3, <2>4 DEF ShownInv, LoginsKnown
  <2> QED
    BY <2>2, <2>5, <2>6 DEF ShownInv
<1>10. CASE UNCHANGED vars
  <2>1. LoginsKnown'
    BY <1>10 DEF ShownInv, LoginsKnown, vars, server, scene
  <2> QED
    BY <1>10, <2>1, ServerShows DEF vars
<1> QED
  BY <1>1, <1>2, <1>3, <1>4, <1>5, <1>6, <1>7, <1>8, <1>9, <1>10 DEF Next

(* After every frame everybody on the channel is shown, and with the file  *)
(* that bears the name of his model if there is one, for any number of     *)
(* users and models, whatever was loaded before the file was added: the    *)
(* cache of names is what Update reads, and the reload weeds both out of   *)
(* it, the names whose file has come and the characters they were used for.*)
THEOREM ShownAsInstalledAlways == Spec => []ShownAsInstalled
<1>1. CharactersInv /\ ShownInv => ShownAsInstalled
  <2> SUFFICES ASSUME CharactersInv, ShownInv, "drawn" \in moment,
                      NEW u \in DOMAIN players \ {Me},
                      players[u].login, players[u].model # NoModel,
                      players[u].channel = players[Me].channel
               PROVE  /\ u \in DOMAIN providers
                      /\ players[u].model \in tree => providers[u] = players[u].model
    BY DEF ShownAsInstalled
  <2>1. players[u].current = players[u].model
    BY DEF ShownInv, DrawnAreCurrent
  <2>2. LoadedFor(u, players[u], providers, model_names, tree)
    BY DEF ShownInv, LoadedFromNames
  <2> QED
    BY <2>1, <2>2 DEF LoadedFor, ShownInv, NamesAsInstalled
<1> QED
  BY <1>1, ShownInvInit, ShownInvNext, Invariance, PTL DEF Spec
=============================================================================
