# MikuMikuOnline (wss-mod) in TLA+

MikuMikuOnline is a 3D chat. A *server* keeps an account for every connected
user and relays positions and messages; a *client* shows the others as dancing
models on a stage. This directory holds TLA+ models of the program, the TLC
configurations that check them on small instances, and theorems about them
that TLAPS checks for every instance. Source files are named relative to
`src/`.

To check everything by hand:

    tlc -workers 2 -config MCLogin.cfg MCLogin.tla   # a run: the table below names module and cfg
    tlapm AccountProofs.tla                          # a proof module

## 1. The system

### Threads and what they share

* **Server.** One thread runs `io_service::run()` (`server/Server.cpp:84`), and
  with it every socket handler, the callback of `Server::Start` and the big
  switch of `server/main.cpp`. Beside it run one detached thread for every
  logout (`Account::Remove`, `server/Account.cpp:92`), the public ping thread
  (`server/main.cpp:403`) and the thread that watches for the parent client
  (`server/main.cpp:431`). The removal threads share `user_map_` with the
  handlers, half protected by a mutex.
* **Client.** A network thread runs the client's `io_service`
  (`client/Client.cpp:84`), decrypts, answers the handshake itself and puts
  every command into a queue; the main thread takes one command a frame
  (`client/CommandManager.cpp:21`), updates players, scripts, the 3D world and
  the user interface, and sends. Both threads encrypt with the same cipher
  stream. Models load on further threads (`client/ResourceManager.cpp`), and
  scripts run V8 under a lock.
* **Between them** a TCP connection with frames of commands, compressed and,
  after the handshake, encrypted; UDP for the status request, the port test and
  (unused by default) datagrams of a session.

### Components

| component | state | operations | hard behaviour | what makes it correct |
|---|---|---|---|---|
| Account store (`server/Account.*`) | `user_map_`, `max_user_id_`, `position_map_` | register, log in and out, setters, patch since a revision, remove after 30 minutes | removal thread beside handlers; revisions of partial updates | a patch loses nothing; an online account stays; a lost one goes; ids are not reused |
| Receive limits (`Session.cpp`, `Server.cpp:29-52`) | byte sum and start time of the average | count, halve, reset, ignore, close | rounding, the halving clock, buffered input after a close | a polite client loses nothing, a flooding one is closed and stays closed, unless it goes on logging in |
| Session transport (`common/network/Session.*`) | send queue, pending read and write, online flag | Send, SyncSend, DoWriteTCP, WriteTCP, ReceiveTCP, FatalError, Close | two failures for one breakdown, queue that never empties | a fifo channel; one report; released |
| Commands as bytes (`Session::Serialize`, `ReceiveTCP`, `Command.*`, `Utils.hpp`) | receive buffer, place in the cipher stream | serialize, compress, encrypt, stuff, find the delimiter, undo it all | a stream cut anywhere, delimiters inside values | what was sent is what is handled |
| Login and logout (`server/main.cpp`, `client/Client.cpp`, scenes Connect and ChannelChange) | id, key, cipher position, online on both sides | handshake of nine commands, refusal, key exchange | three threads, overtaking commands, refusal that goes on | agreed ids, decryptable, ends, refused stays out, logged out |
| Account replication (`main.cpp`, `CommandManager`, `PlayerManager`) | revisions, players, queue of notifications | notify, request, patch, apply | overlapping requests, patches of later states, erasure in between | each player is a state the account was in; converges; announced once |
| Chat, positions (`Server::SendAll`, `SendOthers`, `SendTo`, `CommandManager`) | command queue, last position | speak, say in private, move, change the channel, drop | more commands than frames; a channel change in between | words arrive once and in order, where they were meant; nobody goes back |
| Players and characters (`PlayerManager`, `CharacterManager`, `PlayerCharacter`) | players, data providers, characters, their targets | add, remove, move to another channel, walk after | three maps that must agree, dangling references | every character has its provider and player, and gets where its player is |
| 3D world (`client/3d/*`) | position, speed, motion, camera, light | walk, jump, fall, play a motion, drag, zoom, Calc | motions changed half way, floors missed, a world made anew | stands on floors, one motion attached, camera linked, sky of the hour |
| Client scenes (`client/scene/*`) | current scene, status, fade, who owns which manager | title, connect, channel change, main loop, option, dashboard | a connection that neither succeeds nor fails; weak pointers | some scene always leads on; managers found and driven once |
| User interface (`client/ui/*`, `WindowManager`) | text, cursor, selection, tabs; windows; scroll; tree of objects | type, select, cut; drag, resize, close; scroll; dock | positions at boundaries, the same key read twice, parents laid out late | text kept, window under the mouse, items shown, margins kept |
| Scripts (`Card`, `CardManager`, `ScriptEnvironment`) | timers, isolates, calls | set and clear timers, events, run, terminate | callbacks that change what is iterated, calls across isolates | no callback after its removal; every event ends |
| Memory pool (`client/tlsf.cpp`) | headers of blocks, free lists, bitmaps | new, delete, memalign, realloc | splits and merges | blocks chain, lists agree, nobody is given what is held |
| Music (`client/Music.cpp`) | present and previous piece, fade state | Play, PlayME, Stop, Update | calls during a fade | the piece asked for ends up loud, the one before it silent |
| Model installer (`client/GenerateJSON.cpp`) | files in folders | copy, write info.json, delete | stopped at any step, calls that fail unnoticed | no model is lost but by a failed call or a cut file; each comes home |
| Client files (`AccountManager`, `ConfigManager`) | `account.xml`, `options.xml` | load, save, make keys | killed between load and save | one identity; what was entered is there |
| Resources (`ResourceManager`) | caches of handles | load, free | loads that finish late | no handle freed while in use |
| Status, public ping, lobby; server configuration; primitives of encryption; vendored `lz4` | - | - | - | not modelled |

PROJECT.json names the sources of every component, says which are modelled,
and lists the hazards of the code, each at its line.

## 2. The modules

    AccountStore  <- Account <- AccountProperties <- MCAccount, AccountProofs
                            \- Replication <- ReplicationProperties <- MCReplication
                                              ReplicationProperties -> SnapshotReplica
    ReplicationProofs  extends AccountProofs and ReplicationProperties
    Session       <- MCSession, SessionProofs        Session -> FifoChannel
    Login         <- MCLogin, LoginProofs
    Characters    <- MCCharacters, CharactersProofs
    ReceiveLimit, Wire, Relay, Walk, Camera, Motions, Daylight, Follow   <- MCChannel
    ReceiveLimit, Relay, Walk, Camera, Motions, Daylight                 <- ChannelProofs
    ScriptTimers, Plugins, Heap, Install, Music, UserFiles               <- MCScripts
    ScriptTimers, Install, Heap, UserFiles                               <- ScriptsProofs
    Scenes, TextInput, Windows, ListView, Layout                         <- MCScreens, ScreensProofs

(`<-` extends; `->` instantiates as the abstract specification it implements.)

`MCChannel`, `MCScripts` and `MCScreens` put machines of the client side by side
that share nothing but the frames of the main loop. Their variable `part` says which of
them a behaviour is about, the others keep their initial state: the state space
is the sum of theirs and not the product, and what is proved of a part alone
(`ChannelProofs`, `ScreensProofs`, `ScriptsProofs`) is about the same definitions the run checks.

### AccountStore, Account

`AccountStore` is the data structure of class `Account` as operators: an account
is a function from properties to values, one from properties to the revision each
was stored at, and REVISION. `Set` translates the template of `Account.hpp:62`:
a value that does not change takes no revision, and id 0 is ignored. Texts are a
small set with one representative of the rejected strings; the hash that makes a
trip is a constant operator.

`Account` adds time: one action for each handler of `main.cpp` that changes an
account, and for the removal thread two, since `Account.cpp:100` reads LOGIN before the lock and
`:101` erases under it. For an account that is gone it reads a variable nobody
set, hence both outcomes. `copies` is a history variable: what some client may
have been told. Positions are a map of their own and are left out.

`online` are the ids whose session will report its failure. It is not every id: the
session object outlives its report, so `ServerReceivePublicKey` may give an id to a session that
reported without one (`Session.cpp:349-361`; `login_ghost` is this case step by step), and a session that
sends a second key forgets the first id. `SessionGets` has the three outcomes, and the history variable
`ghosts` the ids nobody will report: LOGIN stays 1 for them, and `LoginMatchesSession` names them.

Not in the model: `GetUserIdFromFingerPrint` compares with a fingerprint no
account is given (`RegisterPublicKey` stores none), so it returns 0 and the
branch of a known user (`main.cpp:211-226`) is dead; every login is a
registration.

### ReceiveLimit

The elapsed time and the sum stand for `read_start_time_` and `read_byte_sum_`.
`Updated` is the halving, `Verdict` the two comparisons of the callback,
`Receive` a whole message: count, halve, judge, and set the average back if it is one of the
two login messages, however often a client sends them (`main.cpp:184`, `:240`). A message in the
buffer of a closed socket is still judged, as in `ReceiveTCP`. `manner` is the
user: polite, greedy for a while and then reformed, or flooding; `verdict` is what became of
the last message. `FloodIsClosed` excepts whoever still gets login messages through.

### Session, FifoChannel

`Session` is one session with the handlers `Send` (serialize and post),
`DoWriteTCP`, `WriteTCP`, `ReceiveTCP`, the socket, and the peer. Messages are
numbered by the call of `Send`. `FifoChannel` is what every other module assumes
of a connection: in order, nothing lost or doubled, delivered unless the
connection breaks. The other models use plain sequences for connections
because of this refinement.

`Reset` is TCP: closing a socket with unread input may lose what was written.
Compression and the frame length are conversions and are left out.

### Login

For every client: the server's session (`sess`), the client's network thread
(`cl`), its main thread (`screen`), and the two directions of the connection. A
message carries its place in the cipher stream, 0 if it is plain; both ends
count. On the client's main thread `Serialize` and `Post` are two steps, since
`Session::Send` encrypts on the caller's thread and posts the result; the
network thread runs between. `ServerReceiveClientInfo` goes on after it refused
a session, as the handler does. The constant `EarlyWriteErrors` says whether a
failed write may be reported before all input is read.

### Replication, SnapshotReplica

`Replication` extends `Account` with the notifications every handler sends, the
request and the patch, and `PlayerManager::ApplyRevisionPatch`. The removal thread may
run between the three reads of a patch request: the test in the handler
(`main.cpp:302`), the header and the properties of `GetUserRevisionPatch`.
`SnapshotReplica` is the promise: while the account exists, a client's copy is a state a handler left, and moves forward only.

A newly registered account is told to nobody before its initial data arrive;
`Converges` speaks of accounts changed since. Messages the receive limits would drop are not dropped here
(`ReceiveLimit` shows that a client as slow as this one loses none). Revisions and ids
are unbounded in the proofs; the code's wrap at 2^32.

### Characters

What one client shows of the others: `players` (`login_players_`), `providers`
(`char_data_providers_`, each with the file its model was loaded from),
`characters` (`CharacterManager`; *dangling* once the provider it refers to is
gone), and in `ResourceManager` the installed models, the remembered names and
the loaded models. All of it belongs to the main thread, so a step is a frame:
at most one command, then `PlayerManager::Update`, then perhaps `ClearModelHandle`
(`IdleFrame`, `PatchFrame`). The loop of `Update` touches one player at a time and
is written for all of them at once. `ChangeChannel` and `Rebuild` (the `/reload`
command) are the other two steps that touch the scene.

The accounts are the server's, with the three properties the scene depends on.
A patch brings what the client lacks of an account and any of what it
has already: that is how patches may repeat and overlap (module `Replication`),
without its messages. A model name that is not installed may resolve to a
related model (`Related`), and otherwise to the unknown one. The client's own
character has id 0, never leaves and is left out; its own *user* is in.

### ScriptTimers

One plugin's `ScriptEnvironment`: the timer thread (`Tick` to `Swept` are one call of
`UpdateTimerEvents`), the main thread (`With`, `TimedWith`, `Close`), and the threads
`TimedWith` starts, one for the main thread (*handler*) and one for the timer thread
(*callback*). `thread` says where a script is: waiting for the Locker, in
JavaScript, or in one of the four timer functions and waiting for `mutex_`.
`watch` is the join with its limit. The arguments of a call are chosen when it takes
effect. `ran` and `cleared` are history variables.

V8 and boost are external, and three things about them matter: a Locker is a
lock; `TerminateExecution` strikes the script that holds the isolate, is
noticed in JavaScript only, and is forgotten when the next thread enters; the
sleep and the joins are points of interruption while mutexes are not, and a
`boost::thread` (1.58, as the project file says) that goes out of scope is
detached. Time is a flag for each timer, and a limit may expire whenever the helper has not ended,
but not while the isolate is free: five seconds are enough to enter it.

### Wire

One direction of a connection as bytes. `Serialize` is the sending side in the code's order:
values in network order, header, compression when the body is long enough and got shorter, encryption
with its own header, stuffing of the delimiter and the escape, the delimiter. `ReceiveTCP` takes what has arrived up to
the last delimiter, message by message (`NextMessage`), leaves the rest in the buffer, and undoes each step. TCP
is `BytesCome`: any number of the bytes under way. `WireAssumption` says which commands there are: a header below the two
of the wire, values that fit the types of the header, and of what is compressed the length that
`Session::Serialize` asserts (`Session.cpp:213`). LZ4 and AES are external: a code that
leaves out a run, a cipher whose next byte depends on its place in the stream.

### Relay

Chat and positions. A client's `up` is what it sent and the server has
not handled, `queue` what the server sent and the main thread has not taken. The server's three
ways of passing on are `SendAll` (the channel, the sender too), `SendOthers` and `SendTo`
(private lists, `Nobody` being the id 0 of a session that has not registered).
`Frame` takes a frame's command, after the cleaning of `CommandManager::Update`:
with more than `Full` commands, the positions at the head of the queue are thrown away. The client's channel and the
server's differ while a change is under way. The log of recent chat is written and read by nobody.

### Walk, Camera, Motions, Daylight, Follow

* `Walk` is `FieldPlayer::Update` on a row of columns, each with a floor, or none, and
  perhaps a ceiling: input, speed, step up, wall, edge, fall, landing, rescue from below the stage
  and the warp points that lead to a place on the same channel (`MainLoop::ProcessInput`;
  the test in `FieldPlayer.cpp:516` is in a comment).
* `Camera` is `GameLoop::MoveCamera` with the link to the character, wheel and
  gamepad, over the channels: each has a new world, and the same character.
* `Motions` is `MotionPlayer` with the way `FieldPlayer` drives it: what is attached to the
  model, which motion is current, which is blended out. Only the first motion of a chain is ever played.
* `Daylight` is `LightStatus::Calc`, its flags and materials; the astronomy of `Init` is given.
* `Follow` is `PlayerCharacter::Update`: another player's character on its way to the
  target it was told last.

### Scenes, TextInput, Windows, ListView, Layout

* `Scenes`: a step is one round of `Core::MainLoop`, with the successor's `Begin`. The
  managers a main loop owns are known by its number, so that a scene that finds
  another's, or none, is seen. `ServerChange` is left out: what would enter it is in a comment.
* `TextInput`: a frame of `InputBox::ProcessInput` in its stages. The string, its cursor and its selection are
  DxLib's; the list of drafts, the tabs, the lines a text is broken into and the three readers of the return key are the code's.
* `Windows`: a frame is the input of the scene and the `Update` of every window, in
  the manager's order; drag, resize, minimise, close, on one axis.
* `ListView`: `UIList` with `UILabel`: wrapping, places of the items, bar, wheel, grip.
* `Layout`: the tree of objects and `UpdatePosition`, one axis. A script that changes an object after the
  windows' update is drawn once with the old rectangle (`MainLoop.cpp:72-76`), which the model's order of a frame shows.
  An object has one parent and there is no cycle; nothing in the code enforces it (`UIBase.cpp:129`).
  The recursion of `Update` is the list of the calls still to be made (`Laid`), in the order the code makes them,
  so that it can be reasoned about. A label (`Captions`) has an `UpdatePosition` of its own: it is always at the left
  (`XDocking`) and may have the width of its text (`OwnWidth`). `DockedKept` excepts labels that are docked to the right
  only (section 5).

### Plugins

A thread is its stack of calls. `EnterIsolate` takes a V8 Locker, again if the
thread has it, `TimedWith` puts the handler on a thread of its own and joins it with a limit, `With` does not.
The card that rebuilds a list tells all cards from within its handler. `PluginsAssumption` says what the plugins that come with the client do: who rebuilds the lists does not
listen to it, and nobody is started by one he starts. The code holds nobody to it. Plugins that break it can wait for each
other for ever: `timed_join` gives up after the limit, but the termination it asks for does not reach a thread that waits
for an isolate, and the join after it (`ScriptEnvironment.cpp:400`) has no limit.

### Heap

`tlsf.cpp` with sizes in words: headers, free lists as sequences, bitmaps as
sets. `tlsf_new` is two steps, as nothing locks the pool. `tlsf_realloc` and `tlsf_memalign` are in the model although nothing calls them.
Powers of two are a recursive function (`Pow2`), so that they can be reasoned about. `AlignUp` divides where the code masks, which is the same for a
power of two; the code asserts that boundaries are. `HeapAssumption` says that the pool is smaller than `block_size_max` and that no
search is rounded up beyond it (section 5); the pool of the client is half as large, and nobody asks for as much.

### Install

A file is a member of a folder, and a step is one file copied, written or deleted, in
the order of `JsonGen`. `JsonGen` looks at no result, and each call may fail: the folder that is not made or the
info.json that cannot be opened (`WriteInfo`; `GenerateJSON.cpp:539-551`), a copy (`CopyFile`), a deletion. The client may be
stopped between any two steps or in the middle of one, which leaves a part of a file (`CutsCopy`, `CutsInfo`). A partial
copy is never repaired, because `CopyFile` is told not to write over a file that is there. `failed` (history) and `torn` keep what
went wrong. `ModelsComeHome` excepts a model that it went wrong for (`Spoilt`) and no other. The module
assumes that no two models are one
file of one author and name, and that textures, texts and motions are not models. How a header is read is left out.

### Music

What DxLib does with a handle (plays, loops, volume) beside the state of `Music`.
`wish` is a history variable: the piece a script asked for after another, while nothing disturbed it. A third piece may go on
sounding (section 5), and a crossfade after a first jingle makes no wish.

### UserFiles

`Load`, `Save` and Base64 of the two files, with the keys as bytes; the client may be killed in any of its
states. Files are written whole. The server's side is the set of keys it was shown.
`Base64Decode` passes over the padding only where `Base64Encode` puts it, at the end.

## 3. The runs

| run | instance | shows |
|---|---|---|
| `account` | 2 users, 5 revisions, 1 copy, 2 channels | types, online accounts kept, LOGIN follows the session, ghosts named (`AccountsSound`), complete patches, ids not reused, lost users erased |
| `session` | 4 messages | refinement of the fifo channel with its liveness, one report, one write at a time (`SessionSound`), released |
| `login` | 2 clients, capacity 1 | `LoginSound`: refused stays out, ids agree, decryptable, no orphan update |
| `login_ends` | 2 clients, one of an old version | `LoginEnds`: every handshake ends, logouts seen |
| `login_capacity` | 2 clients, capacity 1 | **violation**: the capacity is exceeded |
| `login_ghost` | 1 client, early write errors | **violation**: an account stays logged in for ever |
| `replication` | 1 account, 1 watcher, 6 revisions, 2 pending | refinement of the replica, convergence, calls of the scripts (`PlayersSound`) |
| `characters` | 2 users, 2 channels, 2 models, 4 changes | characters linked to providers and players (`CharactersSound`), models shown as installed, scene follows the accounts |
| `channel` | see below | limits (`LimitsSound`, `PoliteNeverLimited`, `FloodEnds`); commands arrive as they were sent (`CommandsArrive`); words reach whom they were said to, once and in order (`RelaySound`, `WordsArrive`); walking on floors (`WalkSound`), camera (`CameraKept`), motions (`MotionsKept`), sky (`SkyFitsTime`), others (`Follows`) |
| `scripts` | see below | timers (`TimersSound`, `TimersKeepWord`, `DueRuns`), isolates (`PluginsKept`), pool (`HeapSound`), models (`ModelsComeHome`), music (`MusicComesBack`), files (`ProfileKept`) |
| `screens` | see below | scenes (`ScenesSound`, `ScenesGoOn`), text input (`TypingKept`), windows (`WindowsKept`), lists (`ListKept`), docking (`DockedKept`) |
| `script_timers_embrace` | 2 timers, set and cleared by handlers only | **violation**: timeouts never run |

A property named `...Sound` or `...Kept` is the conjunction of properties defined, with a comment each, just above it; the
theorems of section 4 are about the parts as well as the whole.

### Bounds, and why they are enough

* `MaxUsers = 2` in `account` gives a removal of one user beside the registration of
  another; two is what "an id is given twice" needs. Five revisions are the four
  of a registration with address and port and one more change or the logout.
* `MaxRevision = 6` in `replication` leaves two updates after a registration (which ends at 4),
  or one and a logout; with `MaxPending = 2` two notifications, or a notification and
  a patch, overtake a request. `Room` bounds the messages both ways: without
  it the sessions' queues are infinite.
* Four messages in `session` put one in the socket, one in `async_write`, one in the queue
  and one posted.
* Capacity 1 with two clients is the smallest race for the last place. One
  client is enough for `login_ghost`.
* One other user is enough in `characters`: `Update` treats every player by himself,
  and the proofs are for any number. Of the two models one has a substitute. Four
  changes are a login, a model and two of: another model, a channel of either
  side, a logout. /reload and repeated patches are not counted.
* `channel`. Limits: `RefreshSeconds = 4` is the smallest period whose half has more than one
  second in it, so that a halving can fall before, between and after two
  messages; the limits are small but apart, so that each of the three verdicts occurs.
  Relay: one user walks twice, the other speaks and changes the channel; a queue is full at more than one
  command, so that a position is thrown away with a word behind it. Wire: two of four commands, with
  delimiters and escapes in their values, one long enough to be compressed; every cut of the stream. Walk: a floor to step on, a
  wall, a column without floor, a ceiling, a warp. Gravity is one number there (`Light`, `Gravity` and `Heavy` are 1), so
  that a frame's fall stays within half the height. Camera: two worlds. Daylight: 16 slots, gaps
  up to 5, which is more than a twilight takes.
* `scripts`. Timers: two put one at and one behind the iterator, and let one be
  swept or cleared while the other is due; two scripts of the main thread are a load and a
  message, beside the callbacks. Pool: 23 words hold the largest request or four small blocks, with every order of splits and merges; one
  allocator (section 5 says why). Plugins: two cards, one of which rebuilds and starts the other, on three
  threads. Install: two models of one folder and one home with a text beside them, and a broken one in the folder that is kept; any call fails, one stop, at any point (`NoModelIsLost` is proved for any number). Music: three calls, a
  fade of two frames. Files: three starts.
* `screens`. Scenes: two main loops, a script's window beside a native one, a warp to an unknown channel. Text: one character and a line break, texts and lines of
  two, two characters in a draft and the clipboard together (`MaxKept`). Windows: two that overlap on a screen of three places. List: two items that are longer than the view.
  Layout: a window, a board with a label and a button in it, and a group that a script puts in; three changes.
* `CHECK_DEADLOCK` is off where the system may really stop: counters at their bounds, a user who does nothing more, a
  client that has ended, and the embrace of `EmbraceIsForEver`.
* No run uses symmetry: those with two users check liveness, where it is unsound.

### Fairness

* Weak fairness of every handler stands for `io_service::run()`, which runs
  every ready handler; of `NetworkStep` and `MainStep` for the client's network
  thread and its main loop, which takes a command every frame.
* Weak fairness of the removal thread: it sleeps for a fixed time and the mutex
  is free in between.
* Strong fairness of `PatchRequested` in `Replication`: the io_service serves its
  handlers in order, but the model lets any other handler go first, for ever,
  and each makes it not enabled for a moment; the queue of the io_service does not.
* TCP makes progress while the connection stands (`WriteSucceeds \/ WriteFails`,
  `PeerReads`, in `Wire` `BytesCome`). Nothing says that a user ever acts, that a connection breaks or
  stays, that a client joins.
* In `Characters` the main loop runs, a patch that is due arrives, the server serves the
  channel request, and the client leaves the connecting scene once it is ready.
* In `ScriptTimers` every thread runs, a lock that stays free is taken, time passes, and a
  script ends by itself or is struck. Weak fairness is
  enough: the main thread starts a bounded number of scripts, so no lock is taken for ever
  by others. Nobody has to start a script, set a timer or close the plugin.
* In `Plugins` an isolate that is free again and again is entered in the end (strong
  fairness of `EnterIsolate`: a Locker's critical section serves its waiters), and scripts return or are struck.
* In `ReceiveLimit` time passes, and only a client that is flooding has to send.
* Frames of the main loop go on (`Walk`, `Follow`, `Scenes`, `Music`, the queue of commands in
  `Relay`); the server handles what it was sent; a jingle comes to its end.
* In `Install` the user starts the client again after it was stopped. The runs are bounded, so the last is not stopped.
* `WireFair` and the fairness of `Walk` say of a whole machine that it does not stand still; that is weak fairness of
  its only steps, written without ENABLED.

## 4. The proofs

tlapm checks eight modules; each theorem holds for all values of the constants
that satisfy the named assumptions.

* **AccountProofs** (assumes `TextAssumption`). The inductive invariant
  `AccountInv` says that an account is *good* (no property has a revision above
  REVISION, an absent property has revision 0 ...), that online accounts exist,
  are logged in and have no removal thread, that ids above `max_user_id` are
  unused, and that a copy *agrees*: whatever in the account is not newer than the
  copy equals the copy. Types alone do not carry `PatchComplete`: the argument is
  that every handler *evolves* the account, storing what it changes at
  revisions above all that exist, so that nothing known to a copy is changed under
  its feet. Proved: `TypeOK`, `PatchComplete`, `OnlineAccountKept`,
  `LoginMatchesSession`, `IdNeverReused`, and with them `AccountsSound`. Ghosts are part of it: they exist, are
  logged in and have no removal thread either, since only a report starts one.
* **SessionProofs** (assumes `MaxSendsAssumption`). `SessionInv` contains
  `Line`: received, stream, queue and posted messages, laid end to end, are
  numbered consecutively as long as the connection stands. Proved: `TypeOK`,
  `OneWriteAtATime`, `FailureReportedOnce`, with them `SessionSound`, and that every step of a session is a
  step of the safety part of the channel or a stutter.
* **LoginProofs** (assumes `LoginAssumption`). `LoginInv` says of every client, by
  `ClientInv` of its five parts (session, client, main thread and the two streams),
  that the handshake is a conversation: at most one message of it, the *turn*, is under way
  in the two directions together, and which one it is says how far both ends are
  (`Turns`: while the id is on its way the server has one, the client none, nothing is
  encrypted). Type and ids alone are not inductive: without `OneTurn` two handlers could
  both switch the encryption on. `UpLine` and `DownLine` number what is under way by its
  place in the cipher stream, from what was decrypted to what was
  encrypted, and ids are distinct and at most `max_user_id`. Most lemmas are about values
  and sequences, not about steps, so that one lemma serves both directions.
  `NoOrphanUpdate` needs what the turns do not say, because the message that sends the main thread on
  is no turn: `AllOrdered` follows the client's question about the server on its whole way, as the
  question, as the answer and in the queue of the main thread, and says that it stays behind
  the question for the key, or behind a refusal on which the client is destroyed (`NotAsked`); once the key has
  been sent, data are behind it (`Behind`).
  Proved: `LoginSound`, that is `TypeOK`, `RefusedStaysOut`, `IdsAgree`, `Decryptable`, `NoOrphanUpdate`.
* **CharactersProofs** (assumes `CharactersAssumption`). `CharactersInv` is
  the types with `CharactersLinked` and `CharactersHavePlayers`, which are inductive
  together; what carries them is `ArrivingHaveChanged`: whoever `Update` gives a
  character has had his provider, and so his character, removed in the same run.
  Proved: `TypeOK` and `CharactersUsable`, which are `CharactersSound`. `ShownInv` adds what
  `ShownAsInstalled` needs: every remembered name is remembered as the file `FileOf` gives it
  now (`NamesAsInstalled`), which `/reload` would break if it did not forget both the names whose
  file has come and the models loaded for them, and a login is known before the model is.
* **ScriptsProofs** (assumes `ScriptTimersAssumption` and what is named below). `Inductive` says who holds
  which lock (`LockerHeld`, `MutexHeld`), that the timer thread waits for a callback only
  at a timer in the map, that a helper nobody waits for is idle unless the thread was interrupted, that
  ids are counted behind the timers (`IdsCounted`: the id about to be given is used
  only while its script, with the isolate held, has stored and not yet counted),
  that a timeout that was started is running, behind the iterator or about to be swept,
  and that a timer without a delay is behind the iterator only after a run (`SpentHaveRun`).
  Proved: `TypeOK`, `IteratorValid` (`TimersSound`), `FreshIds`, `TimeoutsRunOnce`, `ClearedStaysQuiet`,
  `LeavesForAReason`, `EmbraceIsForEver` (`TimersKeepWord`).
  Of Install (assumes `InstallAssumption`) `InstallInv`: a readable model that
  is not at home, and for which no call failed, is whole where it was dropped; what is left to be copied of the present
  model is what its home lacks (`Coming`); and a folder whose files are being deleted has only models that are at home, or
  failed, left. Proved: `NoModelIsLost`, the safety part of `ModelsComeHome`, for any folders and any number of failures and stops.
  Of Heap (assumes `HeapAssumption`) `HeapInv`: the pool is *intact*, what is held stands in the blocks in use and
  nowhere else, and who is between the two steps of `tlsf_new` has found what a search would still find. Intact is
  `BlocksChain` and `ListsAgree` with what carries them: no block begins inside another (`Laid`), and the lists
  are told which blocks to hold (`ListsHold(p, L)`). Within an operation the pool is not intact. It is then in
  *part*: one block m is in no list and may have any neighbour (`Part(p, m)`), and when m is free and its neighbour knows, it is *out*
  (`Out(p, m)`). Every function of `tlsf.cpp` has a lemma of its own that says between which of these it leads:
  `block_remove` from intact to out, `block_trim_free` from part to part, `block_mark_as_used` from part to intact,
  `block_mark_as_free`, `block_merge_prev` and `block_merge_next` to out, `block_insert` back to intact.
  `SearchIsEnough` is the theorem behind the two mappings: a block of the class `mapping_search` gives, or of any beyond it, is
  large enough, although classes of one first level are not powers of two; `GapFits` is the one behind the gap of
  `tlsf_memalign`. Proved: `HeapSound` (`LonePoolIsSound`), for a pool of any size that one thread uses.
  The lemmas on the way need only that nobody uses the pool between the two steps of `tlsf_new` (`Undisturbed`), which
  the code ensures for one thread and for no more: nothing is claimed of several (section 5).
  Of UserFiles (assumes `UserFilesAssumption`) `UserInv`: the file is `Missing` or what `Save` writes of some
  account, it has the keys of the account in memory from the first save on, and the server
  has been shown no other. It needs that Base64 gives back what it is given: `KeysAreReadAgain`, for
  keys of any length, follows from three bytes being four letters and back (`LettersOf`,
  `BytesOfLetters`) and from the letters at the end being enough (`LettersAreEnough`).
  Proved: `ProfileKept`.

* **ReplicationProofs** (assumes `TextAssumption`, `ReplicationAssumption`). `ReplicationInv` builds on
  `AccountInv`: no two snapshots of an account share a revision, and one is a later state of the
  other (`History`). So a patch made for revision b turns *every* snapshot from b on into the one it
  was made from (`Fits`), and it does no harm that patches overlap. `Line` follows one account on its way to
  one client: patches arrive in the order of their revisions, a request never holds a
  revision above the client's own, an answer being collected is newer than its request. A patch
  collected after the erasure may be *hollow*; it is then the last one. Proved:
  `PlayersSound`, and that the replicated accounts implement `SnapshotReplica`
  (`PlayersAreSnapshots`, step by step, under the refinement mapping of `ReplicationProperties`).
* **ScreensProofs** (assumes `ScenesAssumption`, `WindowsAssumption`, `TextInputAssumption`, `ListViewAssumption`,
  `LayoutAssumption`). `ScenesInv` adds to `ScenesSound` that main loops are built in
  order, after the first connection is ready, and that the layout saved by a main loop that goes is
  what is shown until the next one reads it (`LayoutSaved`). Proved: `ScenesSound`, `WindowsSurviveWarp`.
  A frame of `Windows` is a fold over the windows, of any number; `FoldStays` (below) carries the
  invariant of the fold: as long as the button is not taken nothing has moved, and afterwards one window
  has. `WindowsInv` says where the mouse took hold of each window: inside it, and still
  inside after resizing. Proved: `WindowsKept`.
  *TextInput*: each stage of `InputBox::ProcessInput` has a lemma that says what it keeps, and a frame chains
  them. `TextInv` adds that a selection lies within the text and that the lines are current whenever something is
  selected, for `selecting_text` reads the lines of the last frame. The text before the cursor and the one behind it, laid
  out one after the other, give the lines of the whole (`LinesGoOn`); a text on one line is that line (`OneLine`);
  what `find` and `substr` take out can be put back where it was (`RemovedIsText`). Proved: `TypingKept`.
  *ListView*: what `UpdatePosition` has noted of a label after so many characters (`WrappedTo`) is followed
  character by character. `ListInv` says that the last frame has drawn the list as it is at some scroll position
  (`Shown`), which the second frame on the same items bounds. That taking hold of the bar does not move the list is about
  two divisions that round (`ThereAndBack`). Proved: `ListKept`.
  *Layout*: the objects are a tree (`Family`), in which no set is without a way up (`Rooted`). Within a frame, those
  `Update` has been called for lie where their parents put them, the calls left are those of their other
  children, and none is made twice (`After`), so that all is done after as many calls as there are
  objects. Proved: `DockedKept`, for any tree, with labels and what else there is.
* **ChannelProofs** (assumes `LimitAssumption`, `CameraAssumption`, `MotionsAssumption`, `RelayAssumption`, `WalkAssumption`,
  `DaylightAssumption`, `WireAssumption`), one part for each of seven modules. *ReceiveLimit*: `LimitInv` gives a polite
  client a budget: the sum is at most `PoliteRate` times the elapsed
  time and one second, whatever was halved. Proved: `TypeOK`,
  `PeriodLongEnough`, `PoliteNeverLimited`, `ClosedStaysClosed`, and with them `LimitsSound`.
  *Camera*: `CameraInv` is the types, `FadesAreIdle` (a
  fade leads to a second world and steers nothing) and `CameraKept`; they are inductive together.
  The zoom is carried by lemmas about the wheel and the gamepad as functions. Proved: `CameraKept`.
  *Motions*: the player is *tidy*: the motions on the model are the current one and the one blended
  out, in two slots, and what follows a motion that is not looped is known. Proved: `MotionsKept`.
  *Relay*: what a user sent and the server has not handled is a path through the channels, from the
  one the server has him in to the one he is in, and each of his words fits its place on it
  (`OnTheWay`); who never changed the channel is in the first one for both (`StaysHome`). The positions
  of a user grow from the one shown over those in the queue and those
  on their way to the server to the last one sent (`PositionsGrow`). Proved:
  `RelaySound`, and of `WordsArrive` its safety: `NeverBack`, and `WordsKept`, for which the words
  in a queue are found by their places: a place has the number of the words up to it (`Nth`,
  `CountSteps`, `NthPlace`), what is put at the end leaves the numbers as they are (`NthStays`), and what a
  frame takes holds one word at most, its last (`FetchedPasses`), so that it moves them by one or none (`NthMoves`).
  *Walk*: who is not in the air stands on the floor of his column and has no speed up or down (`OnGround`); with it `WalkedKeeps`,
  `FallenKeeps`, `RisenKeeps` and `MoveKeeps` say of each part of `Move` where it leads, on a stage of any
  shape. Proved: `Grounded` and `NoFallThrough`, the safety part of `WalkSound`.
  *Daylight*: a Calc leaves out no twilight (`NextTwilight`), and the flag of day or night is up
  as long as its sky has yet to be set (`FlagsStand`). Proved: `SkyFitsTime`, for a day and twilights of any length.
  *Wire*: each step of sending has a lemma that the receiver undoes it: numbers and strings, the values of a body one by one,
  the external LZ4 and cipher, stuffing, after which no byte is the delimiter. `WireInv` says that the bytes in the buffer and under
  way together are the frames of the commands posted and not yet fetched, and that the cipher of the receiver
  stands where that of the sender stood before the first of them. So it does not matter where a read ends. Proved:
  `CommandsInOrder`, the safety part of `CommandsArrive`.

Induction over data: the library's theorems take an operator, which the provers
cannot instantiate. `ScreensProofs` proves a form with a *set* of numbers from `WFMin`
(`SetInduction`), and with it that a fold over a sequence of any length is
defined and stays in every set that each of its steps stays in.

What attempts to prove have found:

* `DraggedUnderMouse` was false with larger windows than the run's. A window that is grown and
  dragged nearly off the screen, and then hidden and put back by its icon while `drag_offset_rect_`
  keeps where it was gripped (the button was released in a scene without windows), jumps away from the mouse when a script shows it while the
  button is held (`client/WindowManager.cpp:146-161` resets offset and size, not the grip). The
  property now excepts a window that its icon has put back.
* `MotionsKept` needs that a model's motion for standing is not also the one for walking or running:
  with one motion under two names `FieldPlayer` would not start it. The motions
  are found under three names of a file, and `MotionsAssumption` says that they are three.
* `NoFallThrough` was false on higher stages than the run's: it spoke of whoever has a floor within `Reach` above
  his feet. `FrontCollides` leaves out what is up to `StepHigh` (1.0) above them, and landing looks up no
  further than half the model's height: who drifts over a step between the two and comes down passes
  through it, to the floor below or to his rescue (`client/3d/FieldPlayer.cpp:368`). The property now
  speaks of whoever is above the floor of his column.

All safety the runs check is proved but that of `PluginsKept`: there one thread at a time in an isolate is the Locker itself, and that
no thread waits for itself rests on what `PluginsAssumption` says of the plugins. Only model-checked is liveness (`Follows`, `MusicComesBack`, the liveness parts of
`CommandsArrive`, `WordsArrive` and
`WalkSound`, `LostUserErased`, `FloodEnds`, the liveness part of
`FifoSpec`, `BrokenIsReleased`, `LoginEnds`, `Converges`,
`SceneFollowsAccounts`, `DueRuns`, ...), which is beyond the prover.

## 5. Findings

Three are runs that end in a violation; PROJECT.json quotes both sides.

1. *Capacity.* The handler compares the number of sessions that have an id,
   and the id comes two messages later (`server/main.cpp:177`).
2. *Ghost.* A write that fails while the key is unread reports the session with id
   0; the key is then handled, and the account is never logged out
   (`common/network/Session.cpp:352`).
3. *The embrace.* A script sets or clears a timer while another is due: the timer thread
   holds `mutex_` and waits for the isolate, the script holds the isolate and waits
   for `mutex_` (`client/ScriptEnvironment.cpp:272`). The text chat does so at every message.

Others were met while modelling. Where a model covers the code they are in it, as the
code has them; the properties of the runs except them by name or are not about them.

Network and accounts:

* *Resets.* Each of the two login messages sets the average of the receive limits back, and nothing limits how often a
  client sends them (`server/main.cpp:184`, `:240`): one that floods and repeats them is never closed, against
  `server/readme.txt:36-39`. A second key also registers a second account (`:236`), which its session forgets the first for: the first
  stays logged in.
* *Empty patch.* The removal thread erases between the test and the patch; the
  client asserts that it does not happen (`server/main.cpp:304`).
* *A character of somebody who is gone.* `Update` does not ask whether a player is
  logged in, so a first patch of an account that is logged out already adds a
  character, whose model is never released (`client/PlayerManager.cpp:231`, `:384`).
* *The same account* may be logged in twice; `getFromId` gives scripts a player who has logged
  out (`client/PlayerManager.cpp:493`).
* `Server::FetchUDP` decrypts with the cipher of the TCP session, moves it on, and then deserializes what it had before
  (`server/Server.cpp:393`); no client sends such a datagram, since nothing calls `Client::WriteUDP`.
* `remote_endpoint()` throws for a peer that has just gone (`server/Server.cpp:196`, `:367`); the average goes wrong when
  the clock is set back (`Session.cpp:82`); the size of a datagram is 16 bits (`Session.cpp:211`).
* A torn write of `account.xml` is a new identity (`client/AccountManager.cpp:53`).

Scripts:

* *An interval of 0* runs once: it is swept with the timeouts
  (`client/ScriptEnvironment.cpp:293`). `clearTimeout(undefined)` clears timer 0 (`:247`).
* *The time limit* strikes whoever holds the isolate, and is spent then
  (`client/ScriptEnvironment.cpp:398`); it may pass before its script has begun, and the script is then not stopped (comment at `:394`).
  *Closing* a plugin leaves its callback running (`:75`).
* `removeItem` of a list never removes, items of an action list do nothing; the children of a button are never laid out
  (`ui/UIButton.cpp:49`); `addChild` makes cycles and second parents (`ui/UIBase.cpp:129`), and children are
  iterated while handlers change them (`:424`).
* The escaping of strings in `Card.cpp:1813-1836`; the socket server and the lobby use their maps from several threads
  (`SocketServerManager.cpp:69`, `:86`; `Lobby.cpp:141`).

Client:

* *The pool* is static and nobody locks it (`client/ResourceManager.hpp:47`, `client/tlsf.cpp:961`): with two
  `Allocators` instead of one, TLC shows `HeapSound` violated in a few steps. `tlsf_new(0)` throws.
* *The pool at its limits*, far from what the client asks for. `tlsf_create` accepts a pool of `block_size_max` bytes (`client/tlsf.cpp:770`, `>`), and a free block of
  that size has the class `FL_INDEX_COUNT`, one past the last list. `mapping_search` rounds the last 64th of the sizes
  below `block_size_max` up to that class (`:330-338`). `tlsf_realloc` of a size from `block_size_max` on trims the block
  to no words, which reads as the end of the pool (`:950`), where its comment says that "a request that cannot be satisfied will leave the original buffer
  untouched" (`:897`); `tlsf_memalign` of 0 or of such a size makes a block like it.
* *Music.* The loader's flag stays set (`Music.cpp:93`); the previous piece is never reset (`:178`);
  `PlayME` twice loops the jingle; a crossfade to the present piece stops it (`:197`); `Play` during a crossfade leaves the other piece
  sounding (`:95`); `Stop` during one keeps the new piece; an unknown name dereferences `end()` (`:88`).
* *Text input.* The active input swallows presses outside its rectangle (`InputBox.cpp:519-521` never runs);
  copying and cutting across lines miss the breaks (`Input.cpp:1234-1246`, `75-82`), and a cut takes the first place where the
  text occurs, selected or not (`:75`).
* *Labels.* `docking` says on which sides an object has a fixed margin (`client/ui/UIBase.cpp:401`); a label
  stays at its left margin whatever it says (`client/ui/UILabel.cpp:297-306`, with a note that it is a bug).
* *Installer.* The folder goes also when a model in it could not be read, or when a call failed for it
  (`GenerateJSON.cpp:615`): a home that cannot be made, an info.json that cannot be opened (`:551`; the comment at `:547` says that it
  happens), a copy that fails (`:578`, `:589`, `:601`, `:611`). Such a model is lost. So is one whose copy
  was cut off by a stop, since no later run copies over a file that is there. The height of one model is carried over to the next (`:441`).
* The options for the way of walking and for the camera also set a button and the type of the gamepad
  (`scene/Option.cpp:513`, `:532`), which have their own options (`readme_wss-mod_jp.txt:111`).
* `MainLoop.cpp:187` hands the client's own JSON to the plugins without the server.

## 6. Not modelled

* `lz4`: third-party code; Status, public ping and lobby: texts nothing else reads;
  `Config` and `Channel` of the server: two files read once, at the start.
* UDP beside the port test, `position_map_` (nothing reads it), the log of recent chat (likewise).
* Drawing, models, textures, collision in three dimensions: floating-point geometry and
  calls into DX library. The machines around it are modelled on whole numbers (Walk, Camera, Follow, Layout).
* The caches of images, fonts and motions, and the archive reader: each loads once and keeps.
* Name tips, the list of users nearby, `MiniMap`, `UICustom`: they draw.
* The socket server for scripts, and the bindings to V8 as far as they only convert values.
* File formats, log output, and OpenSSL and Crypto++ behind `Encrypter` and `Signature`.
* Exceptions: a handler that throws ends `io_service::run()`; the one place that
  catches (`SyncSend`) is modelled.

## 7. Plan

1. Done: accounts, limits, transport, bytes, login, replication, relay, characters, the world, scenes, user
   interface, timers, plugins, pool, installer, music, files.
2. Done: the proofs of section 4.
3. More of the code: the caches of ResourceManager as one abstract map, the socket server, CardManager and InputManager.
