------------------------------- MODULE Scenes -------------------------------
(***************************************************************************)
(* The scenes of the client (client/Core.cpp, client/scene/): which one    *)
(* runs, what each owns, and the managers they hand to each other through  *)
(* ManagerAccessor, which keeps weak pointers.  A step is one round of     *)
(* Core::MainLoop: the scene's ProcessInput, Update and Draw, and, if it   *)
(* named a successor, its End and the successor's Begin.                   *)
(*                                                                         *)
(* A main loop is known by a number, its window manager and its world by   *)
(* the number of the main loop they belong to.  ServerChange is left out:  *)
(* the only statement that sets host_change_flag_ is in a comment          *)
(* (client/3d/FieldPlayer.cpp:515-521).                                    *)
(***************************************************************************)
EXTENDS Integers, Sequences

CONSTANTS
    Channels,      \* the channels the server described
    WarpTargets,   \* the channels its warp points name
    Windows,       \* the windows of the plugins
    NativeWindows, \* those every main loop builds anew: inputbox, radar
    Items,         \* the radio buttons of Option
    StartFrames,   \* 30 in the code
    FadeFrames,    \* 120
    CloseFrames,   \* 10
    MaxLoops       \* bound on the main loops built

Pads == {"gamepad_type", "gamepad_enable", "gamepad_jump", "gamepad_speed",
         "gamepad_warp", "gamepad_sshot"}

ASSUME ScenesAssumption ==
    /\ Channels \subseteq Nat /\ 0 \in Channels /\ WarpTargets \subseteq Nat
    /\ NativeWindows \subseteq Windows
    /\ StartFrames \in Nat /\ FadeFrames \in Nat /\ CloseFrames \in Nat \ {0}
    /\ MaxLoops \in Nat

VARIABLES
    scene,    \* current_scene_, its members and those of its background
    status,   \* CommandManager::status_, "none" without a command manager
    client,   \* whether that has a network::Client
    windows,  \* ManagerAccessor::window_manager_, by number; 0: none
    world,    \* ManagerAccessor::world_manager_, likewise
    visible,  \* the windows that are visible
    layout,   \* those layout.xml says are
    exists,   \* whether there is a layout.xml
    config,   \* ConfigManager: the value of every radio button
    gamepad,  \* InputManager: the value in effect
    driven,   \* the window managers the last round updated and gave the input
    touched   \* windows a timer of a script showed or hid during a fade

scenesVars == <<scene, status, client, windows, world, visible, layout, exists,
                config, gamepad, driven, touched>>

Kinds == {"Init", "Title", "Connect", "ChannelChange", "MainLoop", "Option", "Dashboard",
          "none"}
Errors == {"ERROR", "CROWDED", "VERSION", "NOSTAGE"}
Values == 0..1
Numbers == 0..MaxLoops

ScenesTypeOK ==
    /\ scene \in [kind : Kinds, loop : Numbers, manager : Numbers, channel : Channels \cup WarpTargets,
                  count : Nat, flag : BOOLEAN, built : Numbers]
    /\ status \in {"none", "STANDBY", "READY"} \cup Errors /\ client \in BOOLEAN
    /\ windows \in Numbers /\ world \in Numbers
    /\ visible \subseteq Windows /\ layout \subseteq Windows /\ exists \in BOOLEAN
    /\ config \in [Items -> Values] /\ gamepad \in [Items \cap Pads -> Values]
    /\ driven \in [loop : Numbers, updated : Seq(Numbers), fed : Seq(Numbers)]
    /\ touched \subseteq Windows

\* loop is the main loop a scene is, or has in the background; count is
\* start_count_, screen_count_, fade_counter_ or end_count_; flag is
\* connect_flag_ or return_flag_.
At(kind, loop) == [kind |-> kind, loop |-> loop, manager |-> 0, channel |-> 0, count |-> 0,
                   flag |-> FALSE, built |-> scene.built]

Idle == [loop |-> 0, updated |-> <<>>, fed |-> <<>>]

ScenesInit ==
    /\ scene = [kind |-> "Init", loop |-> 0, manager |-> 0, channel |-> 0, count |-> 0,
                flag |-> FALSE, built |-> 0]
    /\ status = "none" /\ client = FALSE /\ windows = 0 /\ world = 0
    /\ visible = Windows /\ exists \in BOOLEAN
    /\ layout \in (IF exists THEN SUBSET Windows ELSE {{}})
    /\ config \in [Items -> Values] /\ gamepad = [i \in Items \cap Pads |-> config[i]]
    /\ driven = Idle /\ touched = {}

-----------------------------------------------------------------------------
\* lock() of the weak pointers: what they point to dies with its main loop.
Locked(number) == IF number = scene.loop THEN number ELSE 0
LockedWindows == Locked(windows)

\* Mutant of WindowsFor: the overlay takes the manager and leaves it there too.
WindowsForBoth(next) == IF next.built > scene.built THEN next.built ELSE windows

\* The window manager the accessor has once next has begun.  Dashboard takes it
\* away from the main loop behind it and gives it back at its end.
WindowsFor(next) ==
    IF next.kind = "Dashboard" THEN 0
    ELSE IF scene.kind = "Dashboard" THEN scene.manager
    ELSE IF next.built > scene.built THEN next.built ELSE windows

\* Mutant of SetScene: a main loop goes without saving its layout.
SetSceneUnsaved(next) ==
    /\ scene' = next
    /\ windows' = WindowsFor(next)
    /\ UNCHANGED <<layout, exists>>

\* Core::SetScene.  The last pointer to a main loop that goes saves its layout.
SetScene(next) ==
    /\ scene' = next
    /\ windows' = WindowsFor(next)
    /\ IF scene.loop \notin {0, next.loop} THEN layout' = visible /\ exists' = TRUE
                                           ELSE UNCHANGED <<layout, exists>>

SameWindows == UNCHANGED <<visible, touched>>
SameConnection == UNCHANGED <<status, client>>
SameSettings == UNCHANGED <<config, gamepad>>

\* scene::Init, which loads the plugins; its constructor sets the gamepad.
InitFrame ==
    /\ scene.kind = "Init"
    /\ SetScene(IF scene.count >= StartFrames THEN At("Title", 0)
                                             ELSE [scene EXCEPT !.count = @ + 1])
    /\ driven' = Idle
    /\ SameWindows /\ SameConnection /\ SameSettings /\ UNCHANGED world

\* The new Connect makes a CommandManager and, in Begin, a Client.  asked: the
\* button, Enter in the host box, or a click on a server of the lobby.
TitleFrame(asked) ==
    LET flag == scene.flag \/ asked
        leaves == flag /\ scene.count >= StartFrames
    IN
    /\ scene.kind = "Title"
    /\ SetScene(IF leaves THEN At("Connect", 0)
                ELSE [scene EXCEPT !.flag = flag, !.count = IF flag THEN @ + 1 ELSE @])
    /\ IF leaves THEN status' = "STANDBY" /\ client' = TRUE ELSE SameConnection
    /\ driven' = Idle
    /\ SameWindows /\ SameSettings /\ UNCHANGED world

\* CommandManager::Update: a command may change the status.
Fetched == {"ERROR"} \cup
           (IF status = "STANDBY" THEN {"CROWDED", "VERSION", "NOSTAGE", "READY"} ELSE {})
StatusAfter(command) == IF client /\ command \in Fetched THEN command ELSE status

\* An error costs the client, and the scene stays: only the button leads on.
ConnectFrame(command, cancelled) ==
    LET after == StatusAfter(command)
        flag == scene.flag \/ cancelled
        leaves == flag /\ after # "READY"
    IN
    /\ scene.kind = "Connect"
    /\ SetScene(IF after = "READY" THEN At("ChannelChange", 0)
                ELSE IF flag THEN At("Title", 0) ELSE scene)
    /\ status' = IF leaves THEN "none" ELSE after
    /\ client' = (client /\ after \notin Errors /\ ~leaves)
    /\ driven' = Idle
    /\ SameWindows /\ SameSettings /\ UNCHANGED world

\* Nobody fetches commands while the picture fades.  Then a world is built for
\* the channel, at() of which ends the program if the server did not describe
\* it, and a main loop, whose windows are placed by layout.xml.
ChannelChangeFrame ==
    LET new == scene.built + 1 IN
    /\ scene.kind = "ChannelChange"
    /\ \/ /\ scene.count < FadeFrames
          /\ SetScene([scene EXCEPT !.count = @ + 1])
          /\ UNCHANGED <<world, visible, touched>>
       \/ /\ scene.count = FadeFrames /\ scene.channel \notin Channels
          /\ SetScene(At("none", 0))
          /\ world' = 0
          /\ UNCHANGED <<visible, touched>>
       \/ /\ scene.count = FadeFrames /\ scene.channel \in Channels /\ new <= MaxLoops
          /\ SetScene([At("MainLoop", new) EXCEPT !.built = new])
          /\ world' = new
          /\ visible' = IF exists THEN layout ELSE visible \cup NativeWindows
          /\ touched' = {}
    /\ driven' = Idle
    /\ SameConnection /\ SameSettings

\* The successor keys name: F1 and F2, and M at a warp point to another
\* channel, which comes last and wins; as long as MaxLoops allows another.
MainLoopNext(keys, warp) ==
    IF warp # {} /\ scene.built < MaxLoops THEN [At("ChannelChange", 0) EXCEPT !.channel = CHOOSE c \in warp : TRUE]
    ELSE IF "F1" \in keys THEN At("Option", scene.loop)
    ELSE IF "F2" \in keys THEN [At("Dashboard", scene.loop) EXCEPT !.manager = LockedWindows]
    ELSE scene

\* MainLoop::Update, also of the main loop behind an overlay.
MainLoopUpdate(command) == status' = StatusAfter(command) /\ UNCHANGED client

Only(number) == IF number = 0 THEN <<>> ELSE <<number>>

MainLoopFrame(keys, warp, command) ==
    /\ scene.kind = "MainLoop"
    /\ SetScene(MainLoopNext(keys, warp))
    /\ MainLoopUpdate(command)
    /\ driven' = [loop |-> scene.loop, updated |-> Only(LockedWindows), fed |-> Only(LockedWindows)]
    /\ SameWindows /\ SameSettings /\ UNCHANGED world

\* F1 or F2 again, escape, or a click beside an overlay starts its end; once
\* started it goes on by itself.  ProcessInput counts before Update does.
Closes(keys) == keys \cap {"again", "ESC", "outside"} # {}
EndAfterInput(keys) == IF Closes(keys) THEN scene.count + 1 ELSE scene.count

EndAfterUpdate(end) == IF end > 0 THEN end + 1 ELSE 0

\* An overlay goes on, its count stopping above CloseFrames.
Stays(end) == [scene EXCEPT !.count = IF end > CloseFrames + 1 THEN CloseFrames + 1 ELSE end]

\* Which setting of InputManager a radio button sets; the setter of
\* walk_change_type and that of camera_direction set another's.
PadOf(item) == IF item = "walk_change_type" THEN "gamepad_sshot"
               ELSE IF item = "camera_direction" THEN "gamepad_type" ELSE item

\* The tabs of Option: a click on a value of a radio button, or none.
Chosen(item, value) ==
    IF item = "none" THEN SameSettings
    ELSE /\ config' = [config EXCEPT ![item] = value]
         /\ gamepad' = [p \in DOMAIN gamepad |-> IF p = PadOf(item) THEN value ELSE gamepad[p]]

OptionFrame(keys, item, value, command) ==
    /\ scene.kind = "Option"
    /\ SetScene(IF scene.count > CloseFrames THEN At("MainLoop", scene.loop)
                ELSE IF "other" \in keys
                     THEN [At("Dashboard", scene.loop) EXCEPT !.manager = LockedWindows]
                ELSE Stays(EndAfterUpdate(EndAfterInput(keys))))
    /\ MainLoopUpdate(command)
    /\ Chosen(item, value)
    /\ driven' = [loop |-> scene.loop, updated |-> Only(LockedWindows), fed |-> <<>>]
    /\ SameWindows /\ UNCHANGED world

\* The icons of Dashboard show and hide windows.  It drives its window manager
\* itself, beside what the main loop behind it finds in the accessor.
DashboardFrame(keys, toggled, command) ==
    LET end == EndAfterInput(keys) IN
    /\ scene.kind = "Dashboard"
    /\ SetScene(IF end > CloseFrames THEN At("MainLoop", scene.loop)
                ELSE IF "other" \in keys THEN At("Option", scene.loop)
                ELSE Stays(EndAfterUpdate(end)))
    /\ MainLoopUpdate(command)
    /\ visible' = (visible \ toggled) \cup (toggled \ visible)
    /\ driven' = [loop |-> scene.loop, updated |-> Only(LockedWindows) \o Only(scene.manager),
                  fed |-> Only(scene.manager)]
    /\ SameSettings /\ UNCHANGED <<world, touched>>

\* A timer of a plugin, on its own thread, shows or hides its window.
ScriptShows(w) ==
    /\ scene.kind \notin {"Init", "none"}
    /\ visible' = (visible \ {w}) \cup ({w} \ visible)
    /\ touched' = IF scene.kind = "ChannelChange" THEN touched \cup {w} ELSE touched
    /\ driven' = Idle
    /\ SameConnection /\ SameSettings
    /\ UNCHANGED <<scene, windows, world, layout, exists>>

\* The window of the program is closed.
Quit ==
    /\ scene.kind # "none"
    /\ SetScene(At("none", 0))
    /\ status' = "none" /\ client' = FALSE /\ world' = 0 /\ driven' = Idle
    /\ SameWindows /\ SameSettings

ScenesFrame ==
    \/ InitFrame
    \/ \E asked \in BOOLEAN : TitleFrame(asked)
    \/ \E command \in {"none"} \cup Fetched, cancelled \in BOOLEAN : ConnectFrame(command, cancelled)
    \/ ChannelChangeFrame
    \/ \E keys \in SUBSET {"F1", "F2"}, warp \in {{}} \cup {{c} : c \in WarpTargets},
          command \in {"none", "ERROR"} : MainLoopFrame(keys, warp, command)
    \/ \E keys \in SUBSET {"again", "other"}, item \in {"none"} \cup Items, value \in Values,
          command \in {"none", "ERROR"} : OptionFrame(keys, item, value, command)
    \/ \E keys \in SUBSET {"again", "other"}, toggled \in {{}} \cup {{w} : w \in Windows},
          command \in {"none", "ERROR"} : DashboardFrame(keys, toggled, command)

ScenesNext == ScenesFrame \/ Quit \/ \E w \in Windows \ NativeWindows : ScriptShows(w)

-----------------------------------------------------------------------------
\* Whatever overlays come and go, each frame of a main loop updates its window
\* manager exactly once and gives it the input at most once: scene/Dashboard.cpp
\* takes the manager over from MainLoop::Update, scene/Option.cpp does not.
WindowsDrivenOnce ==
    driven.loop # 0 => /\ driven.updated = <<driven.loop>>
                       /\ driven.fed \in {<<>>, <<driven.loop>>}

\* A scene finds what it takes from ManagerAccessor: from ChannelChange on the
\* connection that became READY, which an error in Connect may not have cost; in
\* a main loop its own world and windows; in Dashboard the windows of its
\* background.
ManagersFound ==
    /\ scene.kind \in {"ChannelChange", "MainLoop", "Option", "Dashboard"} =>
           client /\ status \in {"READY", "ERROR"}
    /\ scene.loop # 0 => Locked(world) = scene.loop
    /\ scene.kind \in {"MainLoop", "Option"} => LockedWindows = scene.loop
    /\ scene.kind = "Dashboard" => scene.manager = scene.loop /\ LockedWindows = 0

\* A warp to another channel, which destroys one main loop and builds another,
\* leaves every window shown or hidden as it was, unless a script changed it
\* during the fade: ~MainLoop saves the layout before the next one restores it.
WindowsSurviveWarp ==
    [][(scene.built' > scene.built /\ scene.built > 0) =>
          \A w \in Windows \ touched : w \in visible' <=> w \in visible]_scenesVars

\* A scene that was asked to lead on does: a request to connect to Connect, a
\* cancelled attempt away from it (a connection that fails raises no error,
\* client/Client.cpp:356), a fade to the main loop or, on an unknown channel, the
\* end, and an overlay that closes to the main loop or the other overlay.
ScenesLeadOn ==
    /\ (scene.kind = "Title" /\ scene.flag) ~> scene.kind \in {"Connect", "none"}
    /\ (scene.kind = "Connect" /\ (scene.flag \/ status = "READY")) ~> scene.kind # "Connect"
    /\ scene.kind = "ChannelChange" ~> scene.kind \in {"MainLoop", "none"}
    /\ (scene.kind = "Option" /\ scene.count > 0) ~> scene.kind # "Option"
    /\ (scene.kind = "Dashboard" /\ scene.count > 0) ~> scene.kind # "Dashboard"

\* The managers of a main loop are where its scenes look for them, once each.
ScenesSound == ScenesTypeOK /\ WindowsDrivenOnce /\ ManagersFound

\* A user who is led from scene to scene gets there, with his windows as he
\* left them.
ScenesGoOn == WindowsSurviveWarp /\ ScenesLeadOn
=============================================================================
