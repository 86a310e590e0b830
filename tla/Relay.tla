-------------------------------- MODULE Relay --------------------------------
(***************************************************************************)
(* Chat, private messages and positions: the clients send them, the server *)
(* passes them on to the sessions they are for, and every client takes one *)
(* command out of its queue in a frame of the main loop.                   *)
(*                                                                         *)
(* A connection is a fifo channel (Session implements one).  `up` is what  *)
(* a client sent and the server has not handled; `queue` is what the       *)
(* server sent and the client's main thread has not taken, the stream and  *)
(* command_queue_ in one, of which some prefix has arrived.  Clients stay  *)
(* below the receive limits here; the requests a notification leads to are *)
(* in Replication.  Positions are numbered, chat is a number of its user.  *)
(***************************************************************************)
EXTENDS Integers, Sequences, FiniteSets, SequencesExt

CONSTANTS
    Users,       \* clients; a user's session has its id once it is registered
    Nobody,      \* id 0, of a session that is not registered
    Rooms,       \* channels
    Full,        \* 40 in CommandManager::Update
    Lists,       \* the "private" lists scripts send
    Walks,       \* bounds on the positions, the words and the channel
    Words,       \* changes of each user
    Moves

ASSUME RelayAssumption ==
    /\ IsFiniteSet(Users) /\ Nobody \notin Users /\ 0 \in Rooms /\ Rooms \subseteq Nat /\ Full \in Nat
    /\ Lists \subseteq Seq(Users \cup {Nobody})
    /\ {Walks, Words, Moves} \subseteq [Users -> Nat]

VARIABLES
    sessions,    \* sessions_ of the server, in the order they were accepted
    named,       \* the users whose session has its id
    room,        \* Session::channel of each user's session
    up,          \* commands on their way to the server
    queue,       \* commands on their way to the main loop of a client
    scene,       \* the channel a client is in, and the one it is fading to
    sent,        \* positions, words and channel changes sent so far
    heard,       \* the chat a client's plugins were given
    shown        \* the last position of each user a client was given

relayVars == <<sessions, named, room, up, queue, scene, sent, heard, shown>>

Staying == -1

RelayInit ==
    /\ \E order \in SetToSeqs(Users) : sessions = order
    /\ named = {}
    /\ room = [u \in Users |-> 0]
    /\ up = [u \in Users |-> <<>>]
    /\ queue = [u \in Users |-> <<>>]
    /\ scene = [u \in Users |-> [in |-> 0, to |-> Staying]]
    /\ sent = [u \in Users |-> [walks |-> 0, words |-> 0, moves |-> 0]]
    /\ heard = [u \in Users |-> <<>>]
    /\ shown = [u \in Users |-> [v \in Users |-> 0]]

Id(u) == IF u \in named THEN u ELSE Nobody
IsJson(c) == c.kind = "json"
IsPosition(c) == c.kind = "position"

Write(u, command) == up' = [up EXCEPT ![u] = Append(@, command)]
Counts(u, what) == sent' = [sent EXCEPT ![u][what] = @ + 1]

\* The login gives the session its id; Login has the rest of it.
Register(u) ==
    /\ u \notin named
    /\ named' = named \cup {u}
    /\ UNCHANGED <<sessions, room, up, queue, scene, sent, heard, shown>>

\* PlayerManager::Update, in one frame of MainLoop out of thirty.
SendPosition(u) ==
    /\ u \in named /\ scene[u].to = Staying /\ sent[u].walks < Walks[u]
    /\ Write(u, [kind |-> "position", number |-> sent[u].walks + 1])
    /\ Counts(u, "walks")
    /\ UNCHANGED <<sessions, named, room, queue, scene, heard, shown>>

\* Card::Function_Network_sendJSONAll; the timers of a plugin go on while the
\* channel changes.
SendJSON(u) ==
    /\ u \in named /\ sent[u].words < Words[u]
    /\ \E list \in Lists :
         Write(u, [kind |-> "json", private |-> list, number |-> sent[u].words + 1,
                   spoken |-> scene[u].in])
    /\ Counts(u, "words")
    /\ UNCHANGED <<sessions, named, room, queue, scene, heard, shown>>

\* MainLoop makes way for ChannelChange, which takes no commands ...
Warp(u) ==
    /\ u \in named /\ scene[u].to = Staying /\ sent[u].moves < Moves[u]
    /\ \E r \in Rooms : scene' = [scene EXCEPT ![u].to = r]
    /\ Counts(u, "moves")
    /\ UNCHANGED <<sessions, named, room, up, queue, heard, shown>>

\* ... and, when the picture has faded, tells the server.  The name it sends
\* with the channel is the one the server has.
ChangeChannel(u) ==
    /\ scene[u].to # Staying
    /\ scene' = [scene EXCEPT ![u] = [in |-> @.to, to |-> Staying]]
    /\ Write(u, [kind |-> "channel", channel |-> scene[u].to])
    /\ UNCHANGED <<sessions, named, room, queue, sent, heard, shown>>

\* Mutant of SendAll: the channel is not looked at.
SendAllAnywhere(everywhere, channel) == named

\* Server::SendAll: to every session that has an id, on one channel or on all.
SendAll(everywhere, channel) == {u \in named : everywhere \/ room[u] = channel}
\* Server::SendOthers, limited: not to the sender, and not to the sessions whose
\* write average is over its limit.
SendOthers(self, channel, busy) ==
    {u \in named : room[u] = channel /\ u \notin busy /\ u # self}

\* Server::SendTo: to the first session with this id.
SendTo(id) ==
    LET its == {i \in DOMAIN sessions : Id(sessions[i]) = id}
    IN  IF its = {} THEN {} ELSE {sessions[CHOOSE i \in its : \A j \in its : i <= j]}

\* The commands one more step puts into the queues, receivers by receivers.
Deliver(receivers, command) ==
    queue' = [u \in Users |-> IF u \in receivers THEN Append(queue[u], command)
                                                 ELSE queue[u]]

\* A list names its users one by one: a user it names twice is sent to twice.
DeliverList(list, command) ==
    queue' = [u \in Users |->
                queue[u] \o [n \in 1..Cardinality({i \in DOMAIN list : u \in SendTo(list[i])})
                               |-> command]]

\* case ServerReceiveJSON, whose sender has an id
ServerReceiveJSON(u, c) ==
    LET relayed == [kind |-> "json", from |-> u, number |-> c.number,
                    private |-> c.private, spoken |-> c.spoken, in |-> room[u]]
    IN  /\ IF c.private = <<>>
           THEN Deliver(SendAll(FALSE, room[u]), relayed)
           ELSE DeliverList(c.private, relayed)
        /\ UNCHANGED room

\* case ServerUpdatePlayerPosition
ServerUpdatePlayerPosition(u, c) ==
    /\ \E busy \in SUBSET (Users \ {u}) :
         Deliver(SendOthers(u, room[u], busy),
                 [kind |-> "position", from |-> u, number |-> c.number])
    /\ UNCHANGED room

\* case ServerUpdateAccountProperty, CHANNEL: another channel is a new revision,
\* which everybody is told of.
SetChannel(u, c) ==
    /\ room' = [room EXCEPT ![u] = c.channel]
    /\ IF c.channel # room[u]
       THEN Deliver(SendAll(TRUE, 0), [kind |-> "notify", from |-> u])
       ELSE UNCHANGED queue

ServerHandles(u) ==
    /\ up[u] # <<>>
    /\ up' = [up EXCEPT ![u] = Tail(@)]
    /\ LET c == Head(up[u])
       IN  CASE c.kind = "json" -> ServerReceiveJSON(u, c)
             [] c.kind = "position" -> ServerUpdatePlayerPosition(u, c)
             [] c.kind = "channel" -> SetChannel(u, c)
    /\ UNCHANGED <<sessions, named, scene, sent, heard, shown>>

\* Mutant of Skipped: whatever is at the head goes.
SkippedBlindly(commands) == Len(commands)

\* Client::PopCommand, again and again while there is a position at the head.
\* The result is the number of commands taken, the last of which is handled
\* unless it is a position and they have run out.
Skipped(commands) ==
    LET others == {i \in DOMAIN commands : ~IsPosition(commands[i])}
    IN  IF others = {} THEN Len(commands)
        ELSE CHOOSE i \in others : \A j \in others : i <= j

\* CommandManager::Update: `now` commands have arrived when it looks at the size
\* of the queue without the one it popped, and `later` when it has passed over
\* the positions.
Fetched(u, now, later) ==
    IF now - 1 > Full THEN Skipped(SubSeq(queue[u], 1, later)) ELSE 1

\* CommandManager::FetchCommand.  The position of a user who has no character
\* here is not used.
Frame(u) ==
    /\ scene[u].to = Staying /\ queue[u] # <<>>
    /\ \E now \in 1..Len(queue[u]) : \E later \in now..Len(queue[u]) :
         LET n       == Fetched(u, now, later)
             c       == queue[u][n]
             dropped == now - 1 > Full /\ IsPosition(c)
         IN  /\ queue' = [queue EXCEPT ![u] = SubSeq(@, n + 1, Len(@))]
             /\ heard' = IF IsJson(c) THEN [heard EXCEPT ![u] = Append(@, c)] ELSE heard
             /\ IF IsPosition(c) /\ ~dropped
                THEN \E known \in BOOLEAN :
                       shown' = IF known THEN [shown EXCEPT ![u][c.from] = c.number] ELSE shown
                ELSE UNCHANGED shown
    /\ UNCHANGED <<sessions, named, room, up, scene, sent>>

RelayNext ==
    \E u \in Users :
        \/ Register(u) \/ SendPosition(u) \/ SendJSON(u) \/ Warp(u) \/ ChangeChannel(u)
        \/ ServerHandles(u) \/ Frame(u)

GoesOn(u) == ServerHandles(u) \/ ChangeChannel(u) \/ Frame(u)
RelaySpec == RelayInit /\ [][RelayNext]_relayVars /\ \A u \in Users : WF_relayVars(GoesOn(u))

-----------------------------------------------------------------------------

RelayTypeOK ==
    /\ sessions \in SetToSeqs(Users) /\ named \subseteq Users
    /\ room \in [Users -> Rooms]
    /\ \A u \in Users : scene[u].in \in Rooms /\ scene[u].to \in Rooms \cup {Staying}
    /\ shown \in [Users -> [Users -> Nat]]

\* The words in a queue, in their order: SelectSeq(s, IsJson), by their places.
Places(s) == {i \in DOMAIN s : IsJson(s[i])}
UpTo(places, i) == {j \in places : j <= i}
Nth(places, n) == CHOOSE i \in places : Cardinality(UpTo(places, i)) = n
Talk(s) == [n \in 1..Cardinality(Places(s)) |-> s[Nth(Places(s), n)]]

\* The chat a client was given, and what is on its way there.
Chat(u) == heard[u] \o Talk(queue[u])

\* Who reads what: a word to everybody is passed on in the channel its sender
\* was in when it was typed, also when he leaves at once, and reaches nobody who
\* never went there; a private word reaches those it names, and, when it names
\* id 0, one who had not registered.
ChatStaysInside ==
    \A u \in Users : \A c \in ToSet(heard[u]) \cup {d \in ToSet(queue[u]) : IsJson(d)} :
        /\ c.private = <<>> => /\ c.in = c.spoken
                               /\ sent[u].moves = 0 => c.in = 0
        /\ c.private # <<>> => u \in ToSet(c.private) \/ Nobody \in ToSet(c.private)

RelaySound == RelayTypeOK /\ ChatStaysInside

\* However many positions a client throws away to catch up, no word is lost,
\* repeated or overtaken on the way from the server to the plugins.
WordsKept == [][\A u \in Users : IsPrefix(Chat(u), Chat(u)')]_relayVars

\* A user is never shown at a place he had left for one already shown.
NeverBack == [][\A u, v \in Users : shown'[u][v] >= shown[u][v]]_relayVars

\* A private word to a user who is logged in reaches him, whatever his client
\* is busy with: a long queue, or a change of the channel.
PrivateWordsArrive ==
    \A u, v \in Users : \A n \in 1..Words[u] :
        (v \in named /\ \E c \in ToSet(up[u]) : IsJson(c) /\ c.number = n /\ v \in ToSet(c.private))
            ~> \E c \in ToSet(heard[v]) : c.from = u /\ c.number = n

\* Words arrive, in their order and once, private ones too, and positions never
\* go back.
WordsArrive == WordsKept /\ NeverBack /\ PrivateWordsArrive
=============================================================================
