------------------------------- MODULE Login --------------------------------
(***************************************************************************)
(* How clients log in and out: the handshake handlers of server/main.cpp,  *)
(* the network thread of client/Client.cpp, and the main thread of the     *)
(* client as far as CommandManager and the scenes Connect and              *)
(* ChannelChange drive it.  A client connects once; a user who connects    *)
(* again is another client.                                                *)
(*                                                                         *)
(* A session delivers in order (Session, FifoChannel), so a connection is  *)
(* a pair of sequences.  Commands that neither side acts upon before or    *)
(* during a login (ClientReceiveServerInfo, whose handler is commented     *)
(* out) are left out.                                                      *)
(***************************************************************************)
EXTENDS Integers, Sequences, FiniteSets

CONSTANTS
    Clients,
    OldClients,        \* those whose MMO_PROTOCOL_VERSION is another one
    Capacity,          \* Config::capacity
    EarlyWriteErrors,  \* whether a write can fail before all input is read
    MaxUpdates         \* bound on the properties ChannelChange sends, of two

ASSUME LoginAssumption ==
    /\ OldClients \subseteq Clients
    /\ Capacity \in Nat /\ EarlyWriteErrors \in BOOLEAN /\ MaxUpdates \in 0..2

VARIABLES
    sess,         \* the server's session of every client
    cl,           \* the network thread of every client, and its Session
    screen,       \* the main thread of every client
    c2s, s2c,     \* messages on the way
    login,        \* ids of the accounts whose LOGIN is 1
    max_user_id   \* Account::max_user_id_

vars == <<sess, cl, screen, c2s, s2c, login, max_user_id>>

ServerSession == [accepted : BOOLEAN, open : BOOLEAN, online : BOOLEAN, reading : BOOLEAN,
                  unsent : BOOLEAN, id : Nat, refused : BOOLEAN, initialized : BOOLEAN,
                  encryption : BOOLEAN, sealed : Nat, unsealed : Nat]

ClientSession == [up : BOOLEAN, online : BOOLEAN, id : Nat, keyed : BOOLEAN,
                  encryption : BOOLEAN, sealed : Nat, unsealed : Nat]

ToServer == {"ServerReceiveClientInfo", "ServerRequestedFullServerInfo",
             "ServerReceivePublicKey", "ServerStartEncryptedSession",
             "ServerReceiveAccountInitializeData", "ServerUpdateAccountProperty"}

ToClient == {"ClientRequestedClientInfo", "ClientReceiveFullServerInfo",
             "ClientRequestedPublicKey", "ClientReceiveCommonKey",
             "ClientStartEncryptedSession", "ClientReceiveServerCrowdedError",
             "ClientReceiveUnsupportVersionError",
             "ClientReceiveAccountRevisionUpdateNotify"}

\* The commands CommandManager::FetchCommand acts upon; the others are popped
\* and forgotten, or are the matter of Replication.
Fetched == {"ClientStartEncryptedSession", "ClientReceiveServerCrowdedError",
            "ClientReceiveUnsupportVersionError", "ClientReceiveFullServerInfo",
            "FatalConnectionError"}

\* cipher is the position in the cipher stream, 0 for a plain message.
Wire(kinds) == [kind : kinds, id : Nat, cipher : Nat]

\* The main thread: the commands queued for it, what it is about to send, its
\* message serialized and not yet posted, and the scene.
Screen == [command_queue : Seq(Fetched), todo : Seq(ToServer),
           pending : Seq(Wire(ToServer)), scene : {"Connect", "ChannelChange", "MainLoop"}]

TypeOK ==
    /\ sess \in [Clients -> ServerSession]
    /\ cl \in [Clients -> ClientSession]
    /\ screen \in [Clients -> Screen]
    /\ c2s \in [Clients -> Seq(Wire(ToServer))]
    /\ s2c \in [Clients -> Seq(Wire(ToClient))]
    /\ login \subseteq 1..max_user_id
    /\ max_user_id \in Nat

Init ==
    /\ sess = [c \in Clients |->
                 [accepted |-> FALSE, open |-> FALSE, online |-> FALSE, reading |-> FALSE,
                  unsent |-> FALSE, id |-> 0, refused |-> FALSE, initialized |-> FALSE,
                  encryption |-> FALSE, sealed |-> 0, unsealed |-> 0]]
    /\ cl = [c \in Clients |->
                 [up |-> FALSE, online |-> FALSE, id |-> 0, keyed |-> FALSE,
                  encryption |-> FALSE, sealed |-> 0, unsealed |-> 0]]
    /\ screen = [c \in Clients |-> [command_queue |-> <<>>, todo |-> <<>>, pending |-> <<>>,
                                    scene |-> "Connect"]]
    /\ c2s = [c \in Clients |-> <<>>] /\ s2c = [c \in Clients |-> <<>>]
    /\ login = {} /\ max_user_id = 0

-----------------------------------------------------------------------------
(* Sending.                                                                *)

Command(kind, id) == [kind |-> kind, id |-> id]

\* Session::Serialize, of several commands in a row.
Sealed(end, commands) ==
    [i \in 1..Len(commands) |->
        [kind |-> commands[i].kind, id |-> commands[i].id,
         cipher |-> IF end.encryption THEN end.sealed + i ELSE 0]]

AfterSealing(end, commands) ==
    [end EXCEPT !.sealed = IF end.encryption THEN @ + Len(commands) ELSE @]

\* Decrypting moves the cipher stream on.
AfterUnsealing(end, m) == [end EXCEPT !.unsealed = IF m.cipher > 0 THEN @ + 1 ELSE @]

Only(c, commands) == [d \in Clients |-> IF d = c THEN commands ELSE <<>>]

\* SendAll reaches every session that has an id.
ToAll(ss, commands) == [d \in Clients |-> IF ss[d].id > 0 THEN commands ELSE <<>>]

\* The server sends out[d] to every d, its sessions being ss.  What is sent to
\* a connection that is gone will fail to be written.
ServerSends(ss, out) ==
    /\ sess' = [d \in Clients |->
                  [AfterSealing(ss[d], out[d]) EXCEPT
                      !.unsent = @ \/ (out[d] # <<>> /\ ~(ss[d].open /\ cl[d].up))]]
    /\ s2c' = [d \in Clients |-> IF ss[d].open /\ cl[d].up
                                 THEN s2c[d] \o Sealed(ss[d], out[d]) ELSE s2c[d]]

\* The network thread of client c sends commands; its session is now e.
ClientSends(c, e, commands) ==
    /\ cl' = [cl EXCEPT ![c] = AfterSealing(e, commands)]
    /\ c2s' = [c2s EXCEPT ![c] = IF sess[c].open THEN @ \o Sealed(e, commands) ELSE @]

\* A message from client c is taken, of the given kind, and decrypted.
Arrives(c, kind) ==
    /\ sess[c].reading
    /\ c2s[c] # <<>> /\ Head(c2s[c]).kind = kind

Taken(c) == [sess EXCEPT ![c] = AfterUnsealing(@, Head(c2s[c]))]
Rest(c) == [c2s EXCEPT ![c] = Tail(@)]

-----------------------------------------------------------------------------
(* The server.                                                             *)

\* The client connects and ReceiveSession accepts it.
ReceiveSession(c) ==
    /\ ~sess[c].accepted
    /\ sess' = [sess EXCEPT ![c] = [@ EXCEPT !.accepted = TRUE, !.open = TRUE,
                                             !.online = TRUE, !.reading = TRUE]]
    /\ cl' = [cl EXCEPT ![c] = [@ EXCEPT !.up = TRUE, !.online = TRUE]]
    /\ s2c' = [s2c EXCEPT ![c] = Sealed(sess[c], <<Command("ClientRequestedClientInfo", 0)>>)]
    /\ UNCHANGED <<screen, c2s, login, max_user_id>>

GetUserCount == Cardinality({c \in Clients : sess[c].online /\ sess[c].id > 0})

\* Mutant of Closed: the connection of a refused client is left open.
LeftOpen(s) == s

\* Session::Close
Closed(s) == [s EXCEPT !.open = FALSE]

\* ServerReceiveClientInfo.  The handler goes on after it refused a session:
\* SyncSend and Close come first, and what follows is sent to a closed socket.
\* Messages in the buffer are still handled, later ones never read; closing
\* may cost the client what it has not received.
ServerReceiveClientInfo(c) ==
    LET crowded == GetUserCount >= Capacity
        told    == Append(s2c[c], Sealed(sess[c],
                            <<Command("ClientReceiveServerCrowdedError", 0)>>)[1])
        answer  == IF c \in OldClients
                   THEN Command("ClientReceiveUnsupportVersionError", 0)
                   ELSE Command("ClientRequestedPublicKey", 0)
        ss      == Taken(c)
    IN  /\ Arrives(c, "ServerReceiveClientInfo")
        /\ \/ /\ ~crowded
              /\ c2s' = Rest(c)
              /\ ServerSends(ss, Only(c, <<answer>>))
           \/ /\ crowded
              /\ LET shut == [ss EXCEPT ![c] = [Closed(@) EXCEPT !.refused = TRUE]]
                     out  == IF shut[c].open THEN told \o Sealed(shut[c], <<answer>>) ELSE told
                 IN  /\ \E n \in 0..Len(out) :
                           s2c' = [s2c EXCEPT ![c] = IF ~cl[c].up THEN <<>>
                                                     ELSE IF shut[c].open THEN out
                                                     ELSE SubSeq(out, 1, n)]
                     /\ \E n \in 0..Len(Tail(c2s[c])) :
                           c2s' = [c2s EXCEPT ![c] = IF shut[c].open THEN Tail(@)
                                                     ELSE SubSeq(Tail(@), 1, n)]
                     /\ sess' = [shut EXCEPT ![c].unsent = TRUE]
        /\ UNCHANGED <<cl, screen, login, max_user_id>>

ServerRequestedFullServerInfo(c) ==
    /\ Arrives(c, "ServerRequestedFullServerInfo")
    /\ c2s' = Rest(c)
    /\ ServerSends(Taken(c), Only(c, <<Command("ClientReceiveFullServerInfo", 0)>>))
    /\ UNCHANGED <<cl, screen, login, max_user_id>>

\* Whether ServerReceivePublicKey enables encryption: it does not.
EncryptsFromKeyOn == FALSE

\* The id RegisterPublicKey gives out.
NextUserId == max_user_id + 1

\* ServerReceivePublicKey: a new account, logged in, and the common key.
ServerReceivePublicKey(c) ==
    /\ Arrives(c, "ServerReceivePublicKey")
    /\ max_user_id' = max_user_id + 1
    /\ login' = login \cup {NextUserId}
    /\ c2s' = Rest(c)
    /\ ServerSends([Taken(c) EXCEPT ![c].id = NextUserId, ![c].encryption = EncryptsFromKeyOn],
                   Only(c, <<Command("ClientReceiveCommonKey", NextUserId)>>))
    /\ UNCHANGED <<cl, screen>>

\* ServerStartEncryptedSession: the answer is still plain.
ServerStartEncryptedSession(c) ==
    LET start == <<Command("ClientStartEncryptedSession", 0)>>
        ss    == Taken(c)
    IN  /\ Arrives(c, "ServerStartEncryptedSession")
        /\ c2s' = Rest(c)
        /\ s2c' = [s2c EXCEPT ![c] = IF ss[c].open /\ cl[c].up
                                     THEN @ \o Sealed(ss[c], start) ELSE @]
        /\ sess' = [ss EXCEPT ![c] = [AfterSealing(ss[c], start) EXCEPT
                                         !.encryption = TRUE,
                                         !.unsent = ss[c].unsent \/ ~(ss[c].open /\ cl[c].up)]]
        /\ UNCHANGED <<cl, screen, login, max_user_id>>

Notify(u) == Command("ClientReceiveAccountRevisionUpdateNotify", u)

\* ServerReceiveAccountInitializeData: the client is told of every account,
\* everybody else of the client's.
ServerReceiveAccountInitializeData(c) ==
    LET ss == [Taken(c) EXCEPT ![c].initialized = TRUE]
    IN  /\ Arrives(c, "ServerReceiveAccountInitializeData")
        /\ c2s' = Rest(c)
        /\ ServerSends(ss, [d \in Clients |->
               IF d = c THEN [u \in 1..max_user_id |-> Notify(u)]
               ELSE IF ss[d].id > 0 /\ ss[d].id # ss[c].id THEN <<Notify(ss[c].id)>> ELSE <<>>])
        /\ UNCHANGED <<cl, screen, login, max_user_id>>

\* ServerUpdateAccountProperty: everybody is told if the account changed.
\* Account::Set ignores id 0.
ServerUpdateAccountProperty(c) ==
    LET ss == Taken(c)
    IN  /\ Arrives(c, "ServerUpdateAccountProperty")
        /\ c2s' = Rest(c)
        /\ \E changed \in {FALSE, ss[c].id > 0} :
              ServerSends(ss, IF changed THEN ToAll(ss, <<Notify(ss[c].id)>>) ELSE Only(c, <<>>))
        /\ UNCHANGED <<cl, screen, login, max_user_id>>

\* Mutant of LogOut: commented out.
LogOutForgotten(u) == login

LogOut(u) == login \ {u}

\* FatalError of session c, whose state is s after the failure; a session that
\* has an id raises UserFatalConnectionError.
FatalError(c, s) ==
    LET ss == [sess EXCEPT ![c] = [s EXCEPT !.online = FALSE]]
    IN  IF ~s.online
        THEN sess' = [sess EXCEPT ![c] = s] /\ UNCHANGED <<s2c, login>>
        ELSE /\ login' = LogOut(s.id)
             /\ ServerSends(ss, IF s.id > 0 THEN ToAll(ss, <<Notify(s.id)>>) ELSE Only(c, <<>>))

\* The read fails, after everything that arrived was read.
ReadFails(c) ==
    /\ sess[c].reading /\ c2s[c] = <<>>
    /\ ~sess[c].open \/ ~cl[c].up
    /\ FatalError(c, [sess[c] EXCEPT !.reading = FALSE])
    /\ UNCHANGED <<cl, screen, c2s, max_user_id>>

\* A write fails.
WriteFails(c) ==
    /\ sess[c].unsent /\ sess[c].online
    /\ EarlyWriteErrors \/ c2s[c] = <<>>
    /\ FatalError(c, sess[c])
    /\ UNCHANGED <<cl, screen, c2s, max_user_id>>

-----------------------------------------------------------------------------
(* The network thread of a client: the callback of Client::Client.         *)

\* A message is taken off the connection, decrypted, and its command queued
\* for the main thread, if that thread acts upon it.
Receives(c, kind) ==
    /\ cl[c].up
    /\ s2c[c] # <<>> /\ Head(s2c[c]).kind = kind
    /\ s2c' = [s2c EXCEPT ![c] = Tail(@)]
    /\ screen' = IF kind \in Fetched
                 THEN [screen EXCEPT ![c].command_queue = Append(@, kind)] ELSE screen
    /\ UNCHANGED <<login, max_user_id>>

Opened(c) == AfterUnsealing(cl[c], Head(s2c[c]))

Reply(c, e, commands) == ClientSends(c, e, commands) /\ UNCHANGED sess

ClientRequestedClientInfo(c) ==
    /\ Receives(c, "ClientRequestedClientInfo")
    /\ Reply(c, Opened(c), <<Command("ServerReceiveClientInfo", 0),
                             Command("ServerRequestedFullServerInfo", 0)>>)

ClientRequestedPublicKey(c) ==
    /\ Receives(c, "ClientRequestedPublicKey")
    /\ Reply(c, Opened(c), <<Command("ServerReceivePublicKey", 0)>>)

KeyReply == <<Command("ServerStartEncryptedSession", 0)>>

ClientReceiveCommonKey(c) ==
    /\ Receives(c, "ClientReceiveCommonKey")
    /\ Reply(c, [Opened(c) EXCEPT !.id = Head(s2c[c]).id, !.keyed = TRUE], KeyReply)

ClientStartEncryptedSession(c) ==
    /\ Receives(c, "ClientStartEncryptedSession")
    /\ cl' = [cl EXCEPT ![c] = [Opened(c) EXCEPT !.encryption = TRUE]]
    /\ UNCHANGED <<sess, c2s>>

\* The other commands are only queued.
ClientQueues(c) ==
    \E kind \in {"ClientReceiveFullServerInfo", "ClientReceiveServerCrowdedError",
                 "ClientReceiveUnsupportVersionError",
                 "ClientReceiveAccountRevisionUpdateNotify"} :
        /\ Receives(c, kind)
        /\ cl' = [cl EXCEPT ![c] = Opened(c)]
        /\ UNCHANGED <<sess, c2s>>

\* FatalError on the client, after everything that arrived was read.
ClientReadFails(c) ==
    /\ cl[c].up /\ cl[c].online /\ s2c[c] = <<>> /\ ~sess[c].open
    /\ cl' = [cl EXCEPT ![c].online = FALSE]
    /\ screen' = [screen EXCEPT ![c].command_queue = Append(@, "FatalConnectionError")]
    /\ UNCHANGED <<sess, c2s, s2c, login, max_user_id>>

-----------------------------------------------------------------------------
(* The main thread of a client.                                            *)

\* The Client is destroyed: its destructor closes the socket.  What the
\* network thread had not written yet is lost.
DestroyClient(c) ==
    /\ cl' = [cl EXCEPT ![c].up = FALSE]
    /\ screen' = [screen EXCEPT ![c] = [@ EXCEPT !.command_queue = <<>>, !.todo = <<>>,
                                                 !.pending = <<>>]]
    /\ s2c' = [s2c EXCEPT ![c] = <<>>]
    /\ \E n \in 0..Len(c2s[c]) : c2s' = [c2s EXCEPT ![c] = SubSeq(@, 1, n)]
    /\ UNCHANGED <<sess, login, max_user_id>>

\* The errors on which Connect::Update destroys the client.
EndsConnection(kind) ==
    kind \in {"ClientReceiveServerCrowdedError", "ClientReceiveUnsupportVersionError",
              "FatalConnectionError"}

\* CommandManager::Update and the scene's: one command a frame.  The thread
\* finishes what it sends first; ChannelChange fetches no commands.
FetchCommand(c) ==
    LET queue == screen[c].command_queue
        kind  == Head(queue)
        s     == [screen[c] EXCEPT !.command_queue = Tail(queue)]
    IN  /\ cl[c].up /\ queue # <<>>
        /\ screen[c].todo = <<>> /\ screen[c].pending = <<>>
        /\ screen[c].scene # "ChannelChange"
        /\ \/ EndsConnection(kind) /\ DestroyClient(c)
           \/ /\ ~EndsConnection(kind)
              /\ screen' = [screen EXCEPT ![c] =
                    IF kind = "ClientStartEncryptedSession"
                    THEN [s EXCEPT !.todo = <<"ServerReceiveAccountInitializeData">>]
                    ELSE IF kind = "ClientReceiveFullServerInfo" /\ s.scene = "Connect"
                    THEN [s EXCEPT !.scene = "ChannelChange"]
                    ELSE s]
              /\ UNCHANGED <<sess, cl, c2s, s2c, login, max_user_id>>

\* ChannelChange::Update, after the fade: the name, then the channel.
ChannelChange(c) ==
    /\ cl[c].up /\ screen[c].scene = "ChannelChange"
    /\ screen' = [screen EXCEPT ![c] = [@ EXCEPT !.scene = "MainLoop",
                     !.todo = [i \in 1..MaxUpdates |-> "ServerUpdateAccountProperty"]]]
    /\ UNCHANGED <<sess, cl, c2s, s2c, login, max_user_id>>

\* Session::Send on the main thread, first half: Serialize.
Serialize(c) ==
    LET s       == screen[c]
        command == <<Command(Head(s.todo), 0)>>
    IN  /\ cl[c].up /\ s.todo # <<>> /\ s.pending = <<>>
        /\ screen' = [screen EXCEPT ![c] = [s EXCEPT !.todo = Tail(s.todo),
                                                     !.pending = Sealed(cl[c], command)]]
        /\ cl' = [cl EXCEPT ![c] = AfterSealing(@, command)]
        /\ UNCHANGED <<sess, c2s, s2c, login, max_user_id>>

\* Second half: post.
Post(c) ==
    /\ cl[c].up /\ screen[c].pending # <<>>
    /\ screen' = [screen EXCEPT ![c].pending = <<>>]
    /\ c2s' = [c2s EXCEPT ![c] = IF sess[c].open THEN @ \o screen[c].pending ELSE @]
    /\ UNCHANGED <<sess, cl, s2c, login, max_user_id>>

\* The user cancels, or closes the client.
Quit(c) == cl[c].up /\ DestroyClient(c)

-----------------------------------------------------------------------------
ServerStep(c) ==
    \/ ServerReceiveClientInfo(c) \/ ServerRequestedFullServerInfo(c)
    \/ ServerReceivePublicKey(c) \/ ServerStartEncryptedSession(c)
    \/ ServerReceiveAccountInitializeData(c) \/ ServerUpdateAccountProperty(c)
    \/ ReadFails(c) \/ WriteFails(c)

NetworkStep(c) ==
    \/ ClientRequestedClientInfo(c) \/ ClientRequestedPublicKey(c)
    \/ ClientReceiveCommonKey(c) \/ ClientStartEncryptedSession(c)
    \/ ClientQueues(c) \/ ClientReadFails(c)

MainStep(c) == FetchCommand(c) \/ ChannelChange(c) \/ Serialize(c) \/ Post(c)

Next == \E c \in Clients :
            ReceiveSession(c) \/ ServerStep(c) \/ NetworkStep(c) \/ MainStep(c) \/ Quit(c)

Spec == Init /\ [][Next]_vars

\* The server's io_service, each client's io_service and each client's main
\* loop keep running, and TCP delivers.
FairSpec ==
    /\ Spec
    /\ \A c \in Clients :
          WF_vars(ServerStep(c)) /\ WF_vars(NetworkStep(c)) /\ WF_vars(MainStep(c))

-----------------------------------------------------------------------------
(* Config::capacity is the most clients that are connected at a time.      *)
CapacityRespected == GetUserCount <= Capacity

(* A client that was refused never gets an id, although the handler of     *)
(* ServerReceiveClientInfo goes on and asks it for its key.                *)
RefusedStaysOut == \A c \in Clients : sess[c].refused => sess[c].id = 0

(* An account property never reaches a session that has no id yet, where   *)
(* it would be dropped: the main thread of the client is sent into the     *)
(* scene that sends it by ClientReceiveFullServerInfo, which overtakes     *)
(* half of the key exchange.                                               *)
NoOrphanUpdate ==
    \A c \in Clients :
        c2s[c] # <<>> /\ Head(c2s[c]).kind \in {"ServerUpdateAccountProperty",
                                                "ServerReceiveAccountInitializeData"}
            => sess[c].id > 0

(* Both ends of a session and the account agree on the id, which no other  *)
(* session has.                                                            *)
IdsAgree ==
    /\ \A c \in Clients : cl[c].id > 0 => cl[c].id = sess[c].id
    /\ \A c, d \in Clients : c # d /\ sess[c].id > 0 => sess[c].id # sess[d].id

(* Whatever is decrypted was encrypted at that place of the cipher stream, *)
(* under a key that had arrived: two threads of the client encrypt, and    *)
(* serializing a message and posting it are two steps.                     *)
Decryptable ==
    \A c \in Clients :
        /\ c2s[c] # <<>> /\ Head(c2s[c]).cipher > 0
             => Head(c2s[c]).cipher = sess[c].unsealed + 1 /\ cl[c].keyed
        /\ s2c[c] # <<>> /\ Head(s2c[c]).cipher > 0
             => Head(s2c[c]).cipher = cl[c].unsealed + 1 /\ cl[c].keyed

(* A client that stays is logged in with its initial data in the end, or   *)
(* is refused.                                                             *)
HandshakeEnds ==
    \A c \in Clients : sess[c].accepted ~> (sess[c].initialized \/ ~cl[c].up)

(* Closing the client logs its user out.                                   *)
LogoutSeen ==
    \A c \in Clients : (sess[c].accepted /\ ~cl[c].up) ~> [](sess[c].id \notin login)

(* Who is in, and under which id, while clients race and are refused, what *)
(* each end can read of the other, and that no data of an account goes     *)
(* astray on the way.                                                      *)
LoginSound == TypeOK /\ RefusedStaysOut /\ IdsAgree /\ Decryptable /\ NoOrphanUpdate

(* A login and a logout come to their ends.                                *)
LoginEnds == HandshakeEnds /\ LogoutSeen
=============================================================================
