----------------------------- MODULE ScreensProofs -----------------------------
(***************************************************************************)
(* What holds of the screen of the client, part by part as MCScreens runs  *)
(* it: the scenes and the managers they hand to each other, for any number *)
(* of channels, windows and main loops, the windows under the mouse, what  *)
(* is typed, in texts of any length and any number of tabs, a list of      *)
(* labels, as long as it may be and scrolled however it may be, and the    *)
(* objects docked in a window, whatever tree scripts make of them.         *)
(***************************************************************************)
EXTENDS Scenes, Windows, TextInput, ListView, Layout, SequenceTheorems,
        FiniteSetTheorems, WellFoundedInduction, TLAPS

-----------------------------------------------------------------------------
(* The scenes.                                                             *)

(* Connect goes on with its client, until an error costs it, and leaves in *)
(* the frame the connection becomes ready.                                 *)
ConnectWaits == scene.kind = "Connect" => status # "READY"

(* No main loop has been built before the first connection is ready, and   *)
(* from then on the numbers only grow.                                     *)
BuiltInOrder ==
    /\ scene.kind \in {"Init", "Title", "Connect"} => scene.built = 0
    /\ scene.kind \in {"MainLoop", "Option", "Dashboard"} => scene.loop # 0

(* During the fade between two main loops the layout that was saved is     *)
(* what is shown, but for what a script has touched meanwhile.             *)
LayoutSaved ==
    scene.kind = "ChannelChange" /\ scene.built > 0 =>
        exists /\ \A w \in Windows \ touched : w \in layout <=> w \in visible

ScenesInv == ScenesSound /\ ConnectWaits /\ BuiltInOrder /\ LayoutSaved

Scene == [kind : Kinds, loop : Numbers, manager : Numbers, channel : Channels \cup WarpTargets,
          count : Nat, flag : BOOLEAN, built : Numbers]
Driven == [loop : Numbers, updated : Seq(Numbers), fed : Seq(Numbers)]

LEMMA ZeroIsANumber == 0 \in Numbers /\ 0 \in Channels /\ Numbers \subseteq Nat
  BY ScenesAssumption DEF Numbers

(* A new scene, without what ChannelChange and Dashboard add to it.        *)
LEMMA AtIsScene ==
    ASSUME scene \in Scene, NEW kind \in Kinds, NEW loop \in Numbers
    PROVE  /\ At(kind, loop) \in Scene
           /\ At(kind, loop).kind = kind /\ At(kind, loop).loop = loop
           /\ At(kind, loop).built = scene.built /\ At(kind, loop).count = 0
           /\ At(kind, loop).channel = 0
  BY ZeroIsANumber DEF At, Scene

LEMMA OnlyIsDriven ==
    ASSUME NEW n \in Numbers
    PROVE  /\ Only(n) \in Seq(Numbers)
           /\ n = 0 => Only(n) = <<>>
           /\ n # 0 => Only(n) = <<n>>
  BY DEF Only

LEMMA LockedIsNumber ==
    ASSUME ScenesTypeOK
    PROVE  LockedWindows \in Numbers
  BY ZeroIsANumber DEF LockedWindows, Locked, ScenesTypeOK

(* What a step has to show of the scene it leads to, SetScene does the     *)
(* rest: a scene of the same main loops keeps to the one that runs, a new  *)
(* main loop comes at the end of a fade.                                   *)
Leads(next) ==
    /\ next \in Scene
    /\ next.kind = "Connect" => status' # "READY"
    /\ next.kind \in {"Init", "Title", "Connect"} => next.built = 0
    /\ next.kind \in {"MainLoop", "Option", "Dashboard"} => next.loop # 0
    /\ next.kind \in {"ChannelChange", "MainLoop", "Option", "Dashboard"} =>
           client' /\ status' \in {"READY", "ERROR"}
    /\ next.loop # 0 => world' = next.loop
    /\ next.kind = "ChannelChange" => UNCHANGED <<visible, touched>>

Continues(next) ==
    /\ next.built = scene.built
    /\ next.kind = "Dashboard" =>
           next.manager = next.loop /\ scene.kind \in {"MainLoop", "Option", "Dashboard"}
    /\ next.kind \in {"MainLoop", "Option"} =>
           next.loop = scene.loop /\ scene.kind \in {"MainLoop", "Option", "Dashboard"}
    /\ next.kind = "ChannelChange" /\ next.built > 0 =>
           IF scene.kind = "ChannelChange" THEN next.loop = scene.loop
                                           ELSE scene.loop # 0 /\ next.loop = 0

Begins(next) ==
    /\ scene.kind = "ChannelChange" /\ next.kind = "MainLoop"
    /\ next.built > scene.built /\ next.loop = next.built

(* SetScene hands the managers over, and saves the layout when the main    *)
(* loop goes.                                                              *)
LEMMA SetSceneKeeps ==
    ASSUME ScenesInv, NEW next, SetScene(next), Leads(next), Continues(next) \/ Begins(next)
    PROVE  /\ scene' \in Scene /\ windows' \in Numbers
           /\ layout' \subseteq Windows /\ exists' \in BOOLEAN
           /\ ManagersFound' /\ ConnectWaits' /\ BuiltInOrder' /\ LayoutSaved'
<1>0. /\ ScenesTypeOK /\ ManagersFound /\ BuiltInOrder /\ LayoutSaved
      /\ scene \in Scene
  BY DEF ScenesInv, ScenesSound, ScenesTypeOK, Scene
<1>1. /\ scene' = next /\ windows' = WindowsFor(next) /\ next \in Scene
      /\ IF scene.loop \notin {0, next.loop} THEN layout' = visible /\ exists' = TRUE
                                             ELSE UNCHANGED <<layout, exists>>
  BY DEF SetScene, Leads
<1>2. windows' \in Numbers
  BY <1>0, <1>1, ZeroIsANumber DEF WindowsFor, Scene, ScenesTypeOK
<1>3. layout' \subseteq Windows /\ exists' \in BOOLEAN
  BY <1>0, <1>1 DEF ScenesTypeOK
<1>4. scene.built \in Nat /\ next.built \in Nat
  BY <1>0, <1>1, ZeroIsANumber DEF Scene
<1>5. ASSUME next.kind \in {"MainLoop", "Option"} PROVE windows' = next.loop
  <2>1. CASE Begins(next)
    BY <1>1, <2>1 DEF Begins, WindowsFor
  <2>2. CASE Continues(next) /\ scene.kind = "Dashboard"
    BY <1>0, <1>1, <1>4, <1>5, <2>2 DEF Continues, WindowsFor, ManagersFound
  <2>3. CASE Continues(next) /\ scene.kind \in {"MainLoop", "Option"}
    <3>1. windows' = windows
      BY <1>1, <1>4, <1>5, <2>3 DEF Continues, WindowsFor
    <3>2. scene.loop # 0 /\ LockedWindows = scene.loop
      BY <1>0, <2>3 DEF BuiltInOrder, ManagersFound
    <3> QED
      BY <1>5, <2>3, <3>1, <3>2 DEF Continues, LockedWindows, Locked
  <2> QED
    BY <1>5, <2>1, <2>2, <2>3 DEF Continues
<1>6. ManagersFound'
  <2>1. next.kind = "Dashboard" => next.manager = next.loop /\ windows' = 0
    BY <1>1 DEF Continues, Begins, WindowsFor
  <2> QED
    BY <1>1, <1>5, <2>1 DEF Leads, ManagersFound, LockedWindows, Locked
<1>7. ConnectWaits' /\ BuiltInOrder'
  BY <1>1 DEF Leads, ConnectWaits, BuiltInOrder
<1>8. LayoutSaved'
  <2> SUFFICES ASSUME next.kind = "ChannelChange", next.built > 0
               PROVE  exists' /\ \A w \in Windows \ touched : w \in layout' <=> w \in visible
    BY <1>1 DEF LayoutSaved, Leads
  <2>1. Continues(next)
    BY DEF Begins
  <2>2. CASE scene.kind = "ChannelChange"
    <3>1. UNCHANGED <<layout, exists>>
      BY <1>1, <2>1, <2>2 DEF Continues
    <3> QED
      BY <1>0, <2>1, <2>2, <3>1 DEF LayoutSaved, Continues
  <2>3. CASE scene.kind # "ChannelChange"
    BY <1>1, <2>1, <2>3 DEF Continues
  <2> QED
    BY <2>2, <2>3
<1> QED
  BY <1>1, <1>2, <1>3, <1>6, <1>7, <1>8

(* A round of the main loop keeps the scenes together: SetScene does, and  *)
(* the rest of the round stays within its types.                           *)
LEMMA RoundKeeps ==
    ASSUME ScenesInv, NEW next, SetScene(next), Leads(next), Continues(next) \/ Begins(next),
           status' \in {"none", "STANDBY", "READY"} \cup Errors, client' \in BOOLEAN,
           world' \in Numbers, visible' \subseteq Windows, touched' \subseteq Windows,
           config' \in [Items -> Values], gamepad' \in [Items \cap Pads -> Values],
           driven' \in Driven, WindowsDrivenOnce'
    PROVE  ScenesInv'
<1>1. ScenesTypeOK'
  BY SetSceneKeeps DEF ScenesTypeOK, Scene, Driven
<1> QED
  BY <1>1, SetSceneKeeps DEF ScenesInv, ScenesSound

LEMMA IdleIsDriven == Idle \in Driven
  BY ZeroIsANumber DEF Idle, Driven

LEMMA ScenesInitInv == ScenesInit => ScenesInv
<1> SUFFICES ASSUME ScenesInit PROVE ScenesInv
  OBVIOUS
<1>1. scene \in Scene
  BY ZeroIsANumber DEF ScenesInit, Scene, Kinds
<1>2. config \in [Items -> Values] /\ gamepad \in [Items \cap Pads -> Values]
  BY DEF ScenesInit
<1>3. ScenesTypeOK
  BY <1>1, <1>2, ZeroIsANumber, IdleIsDriven
     DEF ScenesInit, ScenesTypeOK, Scene, Errors, Driven
<1>4. WindowsDrivenOnce /\ ManagersFound /\ ConnectWaits /\ BuiltInOrder /\ LayoutSaved
  BY DEF ScenesInit, WindowsDrivenOnce, ManagersFound, ConnectWaits, BuiltInOrder,
         LayoutSaved, Idle, LockedWindows, Locked
<1> QED
  BY <1>3, <1>4 DEF ScenesInv, ScenesSound

(* A round in which nothing drives a window manager.                       *)
LEMMA NothingDriven ==
    ASSUME driven' = Idle
    PROVE  driven' \in Driven /\ WindowsDrivenOnce'
  BY IdleIsDriven DEF WindowsDrivenOnce, Idle

LEMMA CommandKeepsConnection ==
    ASSUME ScenesInv, scene.kind \in {"MainLoop", "Option", "Dashboard"},
           NEW command \in {"none", "ERROR"}, MainLoopUpdate(command)
    PROVE  client' /\ client' \in BOOLEAN /\ status' \in {"READY", "ERROR"}
<1>1. client /\ status \in {"READY", "ERROR"} /\ client \in BOOLEAN
  BY DEF ScenesInv, ScenesSound, ScenesTypeOK, ManagersFound
<1>2. StatusAfter(command) \in {status, "ERROR"}
  BY DEF StatusAfter, Fetched
<1>3. client' = client /\ status' = StatusAfter(command)
  BY DEF MainLoopUpdate
<1> QED
  BY <1>1, <1>2, <1>3

LEMMA InitFrameKeeps == ScenesInv /\ InitFrame => ScenesInv'
<1> SUFFICES ASSUME ScenesInv, InitFrame PROVE ScenesInv'
  OBVIOUS
<1> DEFINE next == IF scene.count >= StartFrames THEN At("Title", 0)
                                                 ELSE [scene EXCEPT !.count = @ + 1]
<1>0. ScenesTypeOK /\ scene \in Scene /\ BuiltInOrder
  BY DEF ScenesInv, ScenesSound, ScenesTypeOK, Scene
<1>1. /\ scene.kind = "Init" /\ SetScene(next) /\ driven' = Idle
      /\ UNCHANGED <<visible, touched, status, client, config, gamepad, world>>
  BY DEF InitFrame, SameWindows, SameConnection, SameSettings
<1>2. /\ next \in Scene /\ next.kind \in {"Init", "Title"} /\ next.built = scene.built
      /\ next.loop \in {0, scene.loop}
  <2>1. CASE scene.count >= StartFrames
    BY <1>0, <2>1, AtIsScene, ZeroIsANumber DEF Kinds
  <2>2. CASE ~(scene.count >= StartFrames)
    BY <1>0, <1>1, <2>2 DEF Scene
  <2> QED
    BY <2>1, <2>2
<1> HIDE DEF next
<1>3. Leads(next) /\ Continues(next)
  BY <1>0, <1>1, <1>2 DEF Leads, Continues, BuiltInOrder, ScenesInv, ScenesSound, ManagersFound, Locked
<1> QED
  BY <1>0, <1>1, <1>3, RoundKeeps, NothingDriven DEF ScenesTypeOK

LEMMA TitleFrameKeeps ==
    ASSUME ScenesInv, NEW asked \in BOOLEAN, TitleFrame(asked)
    PROVE  ScenesInv'
<1> DEFINE flag == scene.flag \/ asked
           leaves == flag /\ scene.count >= StartFrames
           next == IF leaves THEN At("Connect", 0)
                   ELSE [scene EXCEPT !.flag = flag, !.count = IF flag THEN @ + 1 ELSE @]
<1>0. ScenesTypeOK /\ scene \in Scene /\ BuiltInOrder
  BY DEF ScenesInv, ScenesSound, ScenesTypeOK, Scene
<1>1. /\ scene.kind = "Title" /\ SetScene(next) /\ driven' = Idle
      /\ IF leaves THEN status' = "STANDBY" /\ client' = TRUE ELSE UNCHANGED <<status, client>>
      /\ UNCHANGED <<visible, touched, config, gamepad, world>>
  BY DEF TitleFrame, SameWindows, SameConnection, SameSettings
<1>2. /\ next \in Scene /\ next.kind = IF leaves THEN "Connect" ELSE "Title"
      /\ next.built = scene.built /\ next.loop \in {0, scene.loop}
  <2>0. flag \in BOOLEAN
    BY <1>0 DEF Scene
  <2>1. CASE leaves
    BY <1>0, <2>1, AtIsScene, ZeroIsANumber DEF Kinds
  <2>2. CASE ~leaves
    <3> DEFINE count == IF flag THEN scene.count + 1 ELSE scene.count
    <3>1. count \in Nat
      BY <1>0 DEF Scene
    <3>2. next = [scene EXCEPT !.flag = flag, !.count = count]
      BY <2>2
    <3> HIDE DEF flag, count, next, leaves
    <3> QED
      BY <1>0, <1>1, <2>0, <2>2, <3>1, <3>2 DEF Scene
  <2> QED
    BY <2>1, <2>2
<1> HIDE DEF next, leaves
<1>3. Leads(next) /\ Continues(next)
  BY <1>0, <1>1, <1>2 DEF Leads, Continues, BuiltInOrder, ScenesInv, ScenesSound, ManagersFound, Locked
<1> QED
  BY <1>0, <1>1, <1>3, RoundKeeps, NothingDriven DEF ScenesTypeOK

(* A connection that becomes ready leads on, with its client; one that an  *)
(* error costs leaves Connect for Title alone.                             *)
LEMMA ConnectFrameKeeps ==
    ASSUME ScenesInv, NEW command \in {"none"} \cup Fetched, NEW cancelled \in BOOLEAN,
           ConnectFrame(command, cancelled)
    PROVE  ScenesInv'
<1> DEFINE after == StatusAfter(command)
           flag == scene.flag \/ cancelled
           leaves == flag /\ after # "READY"
           next == IF after = "READY" THEN At("ChannelChange", 0)
                   ELSE IF flag THEN At("Title", 0) ELSE scene
<1>0. /\ ScenesTypeOK /\ scene \in Scene /\ BuiltInOrder /\ ManagersFound /\ ConnectWaits
  BY DEF ScenesInv, ScenesSound, ScenesTypeOK, Scene
<1>1. /\ scene.kind = "Connect" /\ SetScene(next) /\ driven' = Idle
      /\ status' = IF leaves THEN "none" ELSE after
      /\ client' = (client /\ after \notin Errors /\ ~leaves)
      /\ UNCHANGED <<visible, touched, config, gamepad, world>>
  BY DEF ConnectFrame, SameWindows, SameSettings
<1>2. /\ after \in {"none", "STANDBY", "READY"} \cup Errors
      /\ after = "READY" => client
  BY <1>0, <1>1 DEF StatusAfter, Fetched, ScenesTypeOK, Errors, ConnectWaits
<1>3. /\ next \in Scene /\ next.built = scene.built /\ next.loop \in {0, scene.loop}
      /\ next.kind = IF after = "READY" THEN "ChannelChange" ELSE IF flag THEN "Title" ELSE "Connect"
  <2>1. CASE after = "READY"
    BY <1>0, <2>1, AtIsScene, ZeroIsANumber DEF Kinds
  <2>2. CASE after # "READY" /\ flag
    BY <1>0, <2>2, AtIsScene, ZeroIsANumber DEF Kinds
  <2>3. CASE after # "READY" /\ ~flag
    BY <1>0, <1>1, <2>3
  <2> QED
    BY <2>1, <2>2, <2>3
<1>4. scene.built = 0
  BY <1>0, <1>1 DEF BuiltInOrder
<1> HIDE DEF next, after, flag
<1>5. Leads(next)
  BY <1>0, <1>1, <1>2, <1>3, <1>4 DEF Leads, ManagersFound, Locked, Errors
<1>6. Continues(next)
  BY <1>1, <1>3, <1>4 DEF Continues
<1>7. status' \in {"none", "STANDBY", "READY"} \cup Errors /\ client' \in BOOLEAN
  BY <1>0, <1>1, <1>2 DEF ScenesTypeOK
<1> QED
  BY <1>0, <1>1, <1>5, <1>6, <1>7, RoundKeeps, NothingDriven DEF ScenesTypeOK

(* The fade goes on, ends the program, or gives a main loop its number.    *)
LEMMA ChannelChangeFrameKeeps == ScenesInv /\ ChannelChangeFrame => ScenesInv'
<1> SUFFICES ASSUME ScenesInv, ChannelChangeFrame PROVE ScenesInv'
  OBVIOUS
<1> DEFINE new == scene.built + 1
<1>0. ScenesTypeOK /\ scene \in Scene /\ BuiltInOrder /\ ManagersFound
  BY DEF ScenesInv, ScenesSound, ScenesTypeOK, Scene
<1>1. /\ scene.kind = "ChannelChange" /\ driven' = Idle
      /\ UNCHANGED <<status, client, config, gamepad>>
      /\ client /\ status \in {"READY", "ERROR"}
  BY <1>0 DEF ChannelChangeFrame, SameConnection, SameSettings, ManagersFound
<1>2. CASE /\ SetScene([scene EXCEPT !.count = @ + 1])
           /\ UNCHANGED <<world, visible, touched>>
  <2> DEFINE next == [scene EXCEPT !.count = @ + 1]
  <2>1. /\ next \in Scene /\ next.kind = "ChannelChange" /\ next.built = scene.built
        /\ next.loop = scene.loop
    BY <1>0, <1>1 DEF Scene
  <2>2. SetScene(next)
    BY <1>2
  <2> HIDE DEF next
  <2>3. Leads(next) /\ Continues(next)
    BY <1>0, <1>1, <1>2, <2>1 DEF Leads, Continues, ManagersFound, Locked
  <2> QED
    BY <1>0, <1>1, <1>2, <2>2, <2>3, RoundKeeps, NothingDriven DEF ScenesTypeOK
<1>3. CASE SetScene(At("none", 0)) /\ world' = 0 /\ UNCHANGED <<visible, touched>>
  <2> DEFINE next == At("none", 0)
  <2>1. next \in Scene /\ next.kind = "none" /\ next.built = scene.built /\ next.loop = 0
    BY <1>0, AtIsScene, ZeroIsANumber DEF Kinds
  <2>2. SetScene(next)
    BY <1>3
  <2> HIDE DEF next
  <2>3. Leads(next) /\ Continues(next)
    BY <2>1 DEF Leads, Continues
  <2> QED
    BY <1>0, <1>1, <1>3, <2>2, <2>3, RoundKeeps, NothingDriven, ZeroIsANumber DEF ScenesTypeOK
<1>4. CASE /\ new <= MaxLoops
           /\ SetScene([At("MainLoop", new) EXCEPT !.built = new])
           /\ world' = new
           /\ visible' = IF exists THEN layout ELSE visible \cup NativeWindows
           /\ touched' = {}
  <2> DEFINE next == [At("MainLoop", new) EXCEPT !.built = new]
  <2>1. new \in Numbers /\ new > scene.built /\ new # 0
    BY <1>0, <1>4, ScenesAssumption DEF Scene, Numbers
  <2>2. next \in Scene /\ next.kind = "MainLoop" /\ next.built = new /\ next.loop = new
    <3> HIDE DEF new
    <3>1. At("MainLoop", new) \in Scene /\ At("MainLoop", new).kind = "MainLoop"
          /\ At("MainLoop", new).loop = new
      BY <1>0, <2>1, AtIsScene DEF Kinds
    <3> QED
      BY <2>1, <3>1 DEF Scene
  <2>3. SetScene(next)
    BY <1>4
  <2>4. visible' \subseteq Windows
    BY <1>0, <1>4, ScenesAssumption DEF ScenesTypeOK
  <2> HIDE DEF next, new
  <2>5. Leads(next) /\ Begins(next)
    BY <1>1, <1>4, <2>1, <2>2 DEF Leads, Begins
  <2> QED
    BY <1>0, <1>1, <1>4, <2>1, <2>3, <2>4, <2>5, RoundKeeps, NothingDriven DEF ScenesTypeOK
<1> QED
  BY <1>2, <1>3, <1>4 DEF ChannelChangeFrame

(* What drives the windows of a main loop, beside and behind an overlay.   *)
LEMMA DrivenOnce ==
    ASSUME ScenesInv, scene.kind \in {"MainLoop", "Option", "Dashboard"}
    PROVE  /\ scene.loop \in Numbers \ {0} /\ LockedWindows \in Numbers
           /\ scene.kind # "Dashboard" => Only(LockedWindows) = <<scene.loop>>
           /\ scene.kind = "Dashboard" =>
                  /\ scene.manager = scene.loop
                  /\ Only(LockedWindows) \o Only(scene.manager) = <<scene.loop>>
                  /\ Only(scene.manager) = <<scene.loop>>
<1>1. scene.loop \in Numbers \ {0} /\ LockedWindows \in Numbers
  BY LockedIsNumber DEF ScenesInv, ScenesSound, ScenesTypeOK, BuiltInOrder
<1>2. /\ scene.kind # "Dashboard" => LockedWindows = scene.loop
      /\ scene.kind = "Dashboard" => LockedWindows = 0 /\ scene.manager = scene.loop
  BY DEF ScenesInv, ScenesSound, ManagersFound
<1>3. <<>> \o <<scene.loop>> = <<scene.loop>>
  BY <1>1
<1> QED
  BY <1>1, <1>2, <1>3 DEF Only

LEMMA MainLoopFrameKeeps ==
    ASSUME ScenesInv, NEW keys, NEW warp \in {{}} \cup {{c} : c \in WarpTargets},
           NEW command \in {"none", "ERROR"}, MainLoopFrame(keys, warp, command)
    PROVE  ScenesInv'
<1> DEFINE next == MainLoopNext(keys, warp)
<1>0. ScenesTypeOK /\ scene \in Scene /\ BuiltInOrder /\ ManagersFound
  BY DEF ScenesInv, ScenesSound, ScenesTypeOK, Scene
<1>1. /\ scene.kind = "MainLoop" /\ SetScene(next) /\ MainLoopUpdate(command)
      /\ driven' = [loop |-> scene.loop, updated |-> Only(LockedWindows), fed |-> Only(LockedWindows)]
      /\ UNCHANGED <<visible, touched, config, gamepad, world>>
  BY DEF MainLoopFrame, SameWindows, SameSettings
<1>2. /\ scene.loop \in Numbers \ {0} /\ LockedWindows = scene.loop /\ world = scene.loop
      /\ Only(LockedWindows) = <<scene.loop>>
  BY <1>0, <1>1, DrivenOnce DEF ManagersFound, Locked
<1>3. /\ next \in Scene /\ next.built = scene.built
      /\ next.kind \in {"ChannelChange", "Option", "Dashboard", "MainLoop"}
      /\ next.loop = IF next.kind = "ChannelChange" THEN 0 ELSE scene.loop
      /\ next.kind = "Dashboard" => next.manager = scene.loop
  <2>1. CASE warp # {} /\ scene.built < MaxLoops
    <3> DEFINE c == CHOOSE c \in warp : TRUE
    <3>1. c \in WarpTargets
      BY <2>1
    <3>2. next = [At("ChannelChange", 0) EXCEPT !.channel = c]
      BY <2>1 DEF MainLoopNext
    <3> HIDE DEF c, next
    <3>3. At("ChannelChange", 0) \in Scene /\ At("ChannelChange", 0).kind = "ChannelChange"
          /\ At("ChannelChange", 0).loop = 0 /\ At("ChannelChange", 0).built = scene.built
      BY <1>0, AtIsScene, ZeroIsANumber DEF Kinds
    <3> QED
      BY <3>1, <3>2, <3>3 DEF Scene
  <2>2. CASE ~(warp # {} /\ scene.built < MaxLoops) /\ "F1" \in keys
    <3>1. next = At("Option", scene.loop)
      BY <2>2 DEF MainLoopNext
    <3> HIDE DEF next
    <3> QED
      BY <1>0, <1>2, <3>1, AtIsScene DEF Kinds
  <2>3. CASE ~(warp # {} /\ scene.built < MaxLoops) /\ "F1" \notin keys /\ "F2" \in keys
    <3>1. next = [At("Dashboard", scene.loop) EXCEPT !.manager = LockedWindows]
      BY <2>3 DEF MainLoopNext
    <3>2. At("Dashboard", scene.loop) \in Scene /\ At("Dashboard", scene.loop).kind = "Dashboard"
          /\ At("Dashboard", scene.loop).loop = scene.loop
          /\ At("Dashboard", scene.loop).built = scene.built
      BY <1>0, <1>2, AtIsScene DEF Kinds
    <3> HIDE DEF next
    <3> QED
      BY <1>2, <3>1, <3>2 DEF Scene
  <2>4. CASE ~(warp # {} /\ scene.built < MaxLoops) /\ "F1" \notin keys /\ "F2" \notin keys
    <3>1. next = scene
      BY <2>4 DEF MainLoopNext
    <3> HIDE DEF next
    <3> QED
      BY <1>0, <1>1, <3>1
  <2> QED
    BY <2>1, <2>2, <2>3, <2>4
<1> HIDE DEF next
<1>4. client' /\ client' \in BOOLEAN /\ status' \in {"READY", "ERROR"}
  BY <1>1, CommandKeepsConnection
<1>5. Leads(next) /\ Continues(next)
  BY <1>1, <1>2, <1>3, <1>4 DEF Leads, Continues
<1>6. driven' \in Driven /\ WindowsDrivenOnce'
  BY <1>1, <1>2 DEF Driven, WindowsDrivenOnce
<1> QED
  BY <1>0, <1>1, <1>4, <1>5, <1>6, RoundKeeps DEF ScenesTypeOK, Errors

(* An overlay that goes on is the same scene, further on its way.          *)
LEMMA StaysIsScene ==
    ASSUME scene \in Scene, NEW end \in Nat
    PROVE  /\ Stays(end) \in Scene /\ Stays(end).kind = scene.kind
           /\ Stays(end).loop = scene.loop /\ Stays(end).built = scene.built
           /\ Stays(end).manager = scene.manager
  BY ScenesAssumption DEF Stays, Scene

LEMMA EndsAreCounts ==
    ASSUME scene \in Scene, NEW keys
    PROVE  EndAfterInput(keys) \in Nat /\ EndAfterUpdate(EndAfterInput(keys)) \in Nat
<1>1. EndAfterInput(keys) \in Nat
  BY DEF EndAfterInput, Scene
<1> HIDE DEF EndAfterInput
<1> QED
  BY <1>1 DEF EndAfterUpdate

LEMMA ChosenKeeps ==
    ASSUME ScenesTypeOK, NEW item \in {"none"} \cup Items, NEW value \in Values,
           Chosen(item, value)
    PROVE  config' \in [Items -> Values] /\ gamepad' \in [Items \cap Pads -> Values]
<1>1. CASE item = "none"
  BY <1>1 DEF Chosen, SameSettings, ScenesTypeOK
<1>2. CASE item # "none"
  BY <1>2 DEF Chosen, ScenesTypeOK
<1> QED
  BY <1>1, <1>2

LEMMA OptionFrameKeeps ==
    ASSUME ScenesInv, NEW keys, NEW item \in {"none"} \cup Items, NEW value \in Values,
           NEW command \in {"none", "ERROR"}, OptionFrame(keys, item, value, command)
    PROVE  ScenesInv'
<1> DEFINE next == IF scene.count > CloseFrames THEN At("MainLoop", scene.loop)
                   ELSE IF "other" \in keys
                        THEN [At("Dashboard", scene.loop) EXCEPT !.manager = LockedWindows]
                   ELSE Stays(EndAfterUpdate(EndAfterInput(keys)))
<1>0. ScenesTypeOK /\ scene \in Scene /\ BuiltInOrder /\ ManagersFound
  BY DEF ScenesInv, ScenesSound, ScenesTypeOK, Scene
<1>1. /\ scene.kind = "Option" /\ SetScene(next) /\ MainLoopUpdate(command) /\ Chosen(item, value)
      /\ driven' = [loop |-> scene.loop, updated |-> Only(LockedWindows), fed |-> <<>>]
      /\ UNCHANGED <<visible, touched, world>>
  BY DEF OptionFrame, SameWindows
<1>2. /\ scene.loop \in Numbers \ {0} /\ LockedWindows = scene.loop /\ world = scene.loop
      /\ Only(LockedWindows) = <<scene.loop>>
  BY <1>0, <1>1, DrivenOnce DEF ManagersFound, Locked
<1>3. /\ next \in Scene /\ next.built = scene.built /\ next.loop = scene.loop
      /\ next.kind \in {"MainLoop", "Dashboard", "Option"}
      /\ next.kind = "Dashboard" => next.manager = scene.loop
  <2>1. CASE scene.count > CloseFrames
    BY <1>0, <1>2, <2>1, AtIsScene DEF Kinds
  <2>2. CASE ~(scene.count > CloseFrames) /\ "other" \in keys
    <3>1. next = [At("Dashboard", scene.loop) EXCEPT !.manager = LockedWindows]
      BY <2>2
    <3>2. At("Dashboard", scene.loop) \in Scene /\ At("Dashboard", scene.loop).kind = "Dashboard"
          /\ At("Dashboard", scene.loop).loop = scene.loop
          /\ At("Dashboard", scene.loop).built = scene.built
      BY <1>0, <1>2, AtIsScene DEF Kinds
    <3> HIDE DEF next
    <3> QED
      BY <1>2, <3>1, <3>2 DEF Scene
  <2>3. CASE ~(scene.count > CloseFrames) /\ "other" \notin keys
    <3>1. next = Stays(EndAfterUpdate(EndAfterInput(keys)))
      BY <2>3
    <3> HIDE DEF next
    <3> QED
      BY <1>0, <1>1, <3>1, EndsAreCounts, StaysIsScene
  <2> QED
    BY <2>1, <2>2, <2>3
<1> HIDE DEF next
<1>4. client' /\ client' \in BOOLEAN /\ status' \in {"READY", "ERROR"}
  BY <1>1, CommandKeepsConnection
<1>5. Leads(next) /\ Continues(next)
  BY <1>1, <1>2, <1>3, <1>4 DEF Leads, Continues
<1>6. driven' \in Driven /\ WindowsDrivenOnce'
  BY <1>1, <1>2 DEF Driven, WindowsDrivenOnce
<1> QED
  BY <1>0, <1>1, <1>4, <1>5, <1>6, RoundKeeps, ChosenKeeps DEF ScenesTypeOK, Errors

(* Dashboard drives the windows it took, and the main loop behind it finds *)
(* none: once in all.                                                      *)
LEMMA DashboardFrameKeeps ==
    ASSUME ScenesInv, NEW keys, NEW toggled \in {{}} \cup {{w} : w \in Windows},
           NEW command \in {"none", "ERROR"}, DashboardFrame(keys, toggled, command)
    PROVE  ScenesInv'
<1> DEFINE end == EndAfterInput(keys)
           next == IF end > CloseFrames THEN At("MainLoop", scene.loop)
                   ELSE IF "other" \in keys THEN At("Option", scene.loop)
                   ELSE Stays(EndAfterUpdate(end))
<1>0. ScenesTypeOK /\ scene \in Scene /\ BuiltInOrder /\ ManagersFound
  BY DEF ScenesInv, ScenesSound, ScenesTypeOK, Scene
<1>1. /\ scene.kind = "Dashboard" /\ SetScene(next) /\ MainLoopUpdate(command)
      /\ visible' = (visible \ toggled) \cup (toggled \ visible)
      /\ driven' = [loop |-> scene.loop, updated |-> Only(LockedWindows) \o Only(scene.manager),
                    fed |-> Only(scene.manager)]
      /\ UNCHANGED <<config, gamepad, world, touched>>
  BY DEF DashboardFrame, SameSettings
<1>2. /\ scene.loop \in Numbers \ {0} /\ scene.manager = scene.loop /\ world = scene.loop
      /\ Only(LockedWindows) \o Only(scene.manager) = <<scene.loop>>
      /\ Only(scene.manager) = <<scene.loop>>
  BY <1>0, <1>1, DrivenOnce DEF ManagersFound, Locked
<1>3. /\ next \in Scene /\ next.built = scene.built /\ next.loop = scene.loop
      /\ next.kind \in {"MainLoop", "Dashboard", "Option"}
      /\ next.kind = "Dashboard" => next.manager = scene.loop
  <2>1. CASE end > CloseFrames \/ "other" \in keys
    BY <1>0, <1>2, <2>1, AtIsScene DEF Kinds
  <2>2. CASE ~(end > CloseFrames) /\ "other" \notin keys
    <3>1. next = Stays(EndAfterUpdate(EndAfterInput(keys)))
      BY <2>2
    <3> HIDE DEF next
    <3> QED
      BY <1>0, <1>1, <1>2, <3>1, EndsAreCounts, StaysIsScene
  <2> QED
    BY <2>1, <2>2
<1> HIDE DEF next
<1>4. client' /\ client' \in BOOLEAN /\ status' \in {"READY", "ERROR"}
  BY <1>1, CommandKeepsConnection
<1>5. Leads(next) /\ Continues(next)
  BY <1>1, <1>2, <1>3, <1>4 DEF Leads, Continues
<1>6. driven' \in Driven /\ WindowsDrivenOnce'
  BY <1>1, <1>2 DEF Driven, WindowsDrivenOnce
<1>7. visible' \subseteq Windows
  BY <1>0, <1>1 DEF ScenesTypeOK
<1> QED
  BY <1>0, <1>1, <1>4, <1>5, <1>6, <1>7, RoundKeeps DEF ScenesTypeOK, Errors

LEMMA ScriptShowsKeeps ==
    ASSUME ScenesInv, NEW w \in Windows, ScriptShows(w)
    PROVE  ScenesInv'
<1>0. ScenesTypeOK /\ ManagersFound /\ ConnectWaits /\ BuiltInOrder /\ LayoutSaved
  BY DEF ScenesInv, ScenesSound
<1>1. /\ visible' = (visible \ {w}) \cup ({w} \ visible)
      /\ touched' = IF scene.kind = "ChannelChange" THEN touched \cup {w} ELSE touched
      /\ driven' = Idle
      /\ UNCHANGED <<status, client, config, gamepad, scene, windows, world, layout, exists>>
  BY DEF ScriptShows, SameConnection, SameSettings
<1>2. ScenesTypeOK'
  BY <1>0, <1>1, IdleIsDriven DEF ScenesTypeOK, Driven
<1>3. WindowsDrivenOnce'
  BY <1>1, NothingDriven
<1>4. ManagersFound' /\ ConnectWaits' /\ BuiltInOrder'
  BY <1>0, <1>1 DEF ManagersFound, ConnectWaits, BuiltInOrder, LockedWindows, Locked
<1>5. LayoutSaved'
  BY <1>0, <1>1 DEF LayoutSaved
<1> QED
  BY <1>2, <1>3, <1>4, <1>5 DEF ScenesInv, ScenesSound

LEMMA QuitKeeps == ScenesInv /\ Quit => ScenesInv'
<1> SUFFICES ASSUME ScenesInv, Quit PROVE ScenesInv'
  OBVIOUS
<1> DEFINE next == At("none", 0)
<1>0. ScenesTypeOK /\ scene \in Scene
  BY DEF ScenesInv, ScenesSound, ScenesTypeOK, Scene
<1>1. /\ SetScene(next) /\ status' = "none" /\ client' = FALSE /\ world' = 0 /\ driven' = Idle
      /\ UNCHANGED <<visible, touched, config, gamepad>>
  BY DEF Quit, SameWindows, SameSettings
<1>2. next \in Scene /\ next.kind = "none" /\ next.built = scene.built /\ next.loop = 0
  BY <1>0, AtIsScene, ZeroIsANumber DEF Kinds
<1> HIDE DEF next
<1>3. Leads(next) /\ Continues(next)
  BY <1>2 DEF Leads, Continues
<1> QED
  BY <1>0, <1>1, <1>3, RoundKeeps, NothingDriven, ZeroIsANumber DEF ScenesTypeOK

LEMMA ScenesNextInv == ScenesInv /\ [ScenesNext]_scenesVars => ScenesInv'
<1> SUFFICES ASSUME ScenesInv, [ScenesNext]_scenesVars PROVE ScenesInv'
  OBVIOUS
<1>1. CASE ScenesFrame
  BY <1>1, InitFrameKeeps, TitleFrameKeeps, ConnectFrameKeeps, ChannelChangeFrameKeeps,
     MainLoopFrameKeeps, OptionFrameKeeps, DashboardFrameKeeps DEF ScenesFrame
<1>2. CASE Quit
  BY <1>2, QuitKeeps
<1>3. CASE \E w \in Windows \ NativeWindows : ScriptShows(w)
  BY <1>3, ScriptShowsKeeps
<1>4. CASE UNCHANGED scenesVars
  <2>1. ScenesTypeOK'
    BY <1>4 DEF ScenesInv, ScenesSound, ScenesTypeOK, scenesVars
  <2>2. WindowsDrivenOnce' /\ ManagersFound' /\ ConnectWaits' /\ BuiltInOrder' /\ LayoutSaved'
    BY <1>4 DEF ScenesInv, ScenesSound, WindowsDrivenOnce, ManagersFound, ConnectWaits,
                BuiltInOrder, LayoutSaved, LockedWindows, Locked, scenesVars
  <2> QED
    BY <2>1, <2>2 DEF ScenesInv, ScenesSound
<1> QED
  BY <1>1, <1>2, <1>3, <1>4 DEF ScenesNext

ScenesSpec == ScenesInit /\ [][ScenesNext]_scenesVars

(* The managers are where the scenes look for them, and drive the windows  *)
(* once a frame, for any channels, windows and number of main loops: an    *)
(* overlay takes the window manager away from the main loop behind it and  *)
(* gives it back, and a fade keeps the connection that led to it.          *)
THEOREM ScenesAreSound == ScenesSpec => []ScenesSound
<1>1. ScenesInv => ScenesSound
  BY DEF ScenesInv
<1> QED
  BY <1>1, ScenesInitInv, ScenesNextInv, PTL DEF ScenesSpec

(* However many warps there are, the windows come out of each as they went *)
(* in, but for what a script touched during the fade: the layout saved by  *)
(* the main loop that goes is the one that is read.                        *)
THEOREM WindowsSurvive == ScenesSpec => WindowsSurviveWarp
<1>1. ASSUME ScenesInv, [ScenesNext]_scenesVars, scene.built' > scene.built, scene.built > 0,
             NEW w \in Windows \ touched
      PROVE  w \in visible' <=> w \in visible
  <2>0. scene \in Scene
    BY <1>1 DEF ScenesInv, ScenesSound, ScenesTypeOK, Scene
  <2>. scene'.built # scene.built
    <3>1. scene.built \in Nat
      BY <2>0, ZeroIsANumber DEF Scene
    <3>2. ~(scene.built > scene.built)
      BY <3>1
    <3> QED
      BY <1>1, <3>2, Zenon
  <2>1. ASSUME NEW next, SetScene(next), next.built = scene.built PROVE FALSE
    BY <2>1 DEF SetScene
  <2>2. /\ scene.kind = "ChannelChange"
        /\ visible' = IF exists THEN layout ELSE visible \cup NativeWindows
    <3>1. CASE ChannelChangeFrame
      <4>1. [scene EXCEPT !.count = @ + 1].built = scene.built
        BY <2>0 DEF Scene
      <4>2. At("none", 0).built = scene.built
        BY DEF At
      <4> QED
        BY <2>1, <3>1, <4>1, <4>2 DEF ChannelChangeFrame
    <3>2. ~InitFrame /\ ~Quit /\ (\A asked : ~TitleFrame(asked))
      <4>1. [scene EXCEPT !.count = @ + 1].built = scene.built
        BY <2>0 DEF Scene
      <4>2. \A kind, loop : At(kind, loop).built = scene.built
        BY DEF At
      <4>3. \A f, c : [scene EXCEPT !.flag = f, !.count = c].built = scene.built
        BY <2>0 DEF Scene
      <4>4. ~InitFrame /\ ~Quit
        BY <2>1, <4>1, <4>2 DEF InitFrame, Quit
      <4>5. \A asked : ~TitleFrame(asked)
        BY <2>1, <4>2, <4>3 DEF TitleFrame
      <4> QED
        BY <4>4, <4>5
    <3>3. \A keys, warp, command : ~MainLoopFrame(keys, warp, command)
      <4>1. \A keys, warp : MainLoopNext(keys, warp).built = scene.built
        BY DEF MainLoopNext, At
      <4> QED
        BY <2>1, <4>1 DEF MainLoopFrame
    <3>4. \A command, cancelled : ~ConnectFrame(command, cancelled)
      <4>1. \A kind, loop : At(kind, loop).built = scene.built
        BY DEF At
      <4> QED
        BY <2>1, <4>1 DEF ConnectFrame
    <3>5. \A end : Stays(end).built = scene.built
      BY <2>0 DEF Stays, Scene
    <3>6. \A keys, item, value, command : ~OptionFrame(keys, item, value, command)
      <4>1. \A loop : /\ At("MainLoop", loop).built = scene.built
                      /\ [At("Dashboard", loop) EXCEPT !.manager = LockedWindows].built = scene.built
        BY DEF At
      <4> QED
        BY <2>1, <3>5, <4>1 DEF OptionFrame
    <3>7. \A keys, toggled, command : ~DashboardFrame(keys, toggled, command)
      <4>1. \A kind, loop : At(kind, loop).built = scene.built
        BY DEF At
      <4> QED
        BY <2>1, <3>5, <4>1 DEF DashboardFrame
    <3>8. \A v : ~ScriptShows(v)
      BY DEF ScriptShows
    <3>9. ~UNCHANGED scenesVars
      BY DEF scenesVars
    <3> QED
      BY <1>1, <3>1, <3>2, <3>3, <3>4, <3>6, <3>7, <3>8, <3>9 DEF ScenesNext, ScenesFrame
  <2> QED
    BY <1>1, <2>2 DEF ScenesInv, LayoutSaved
<1>2. ScenesInv /\ [ScenesNext]_scenesVars =>
          [(scene.built' > scene.built /\ scene.built > 0) =>
              \A w \in Windows \ touched : w \in visible' <=> w \in visible]_scenesVars
  BY <1>1
<1> QED
  BY <1>2, ScenesInitInv, ScenesNextInv, PTL DEF ScenesSpec, WindowsSurviveWarp
-----------------------------------------------------------------------------
(* Induction on the natural numbers: the library's theorem takes an        *)
(* operator, this one the set of the numbers for which something holds.    *)
LEMMA LeastOf ==
    ASSUME NEW T \in SUBSET Nat, T # {}
    PROVE  \E n \in T : \A m \in T : n <= m
<1> DEFINE R == OpToRel(<, Nat)
<1>1. IsWellFoundedOn(R, Nat)
  BY NatLessThanWellFounded
<1>2. \A x, y \in Nat : <<x, y>> \in R <=> x < y
  BY DEF OpToRel
<1> HIDE DEF R
<1>3. PICK n \in T : \A m \in T : ~(<<m, n>> \in R)
  BY <1>1, WFMin
<1>4. ASSUME NEW m \in T PROVE n <= m
  <2>1. m \in Nat /\ n \in Nat /\ ~(m < n)
    BY <1>2, <1>3
  <2> QED
    BY <2>1
<1> QED
  BY <1>4

LEMMA SetInduction ==
    ASSUME NEW S, 0 \in S, \A n \in Nat : n \in S => n + 1 \in S
    PROVE  Nat \subseteq S
<1> SUFFICES ASSUME Nat \ S # {} PROVE FALSE
  OBVIOUS
<1>1. PICK n \in Nat \ S : \A m \in Nat \ S : n <= m
  BY LeastOf
<1>2. n # 0 /\ n - 1 \in Nat
  BY <1>1
<1>3. n - 1 \in S
  BY <1>1, <1>2
<1> QED
  BY <1>1, <1>2, <1>3

(* A fold over a sequence is defined, and stays in a set that every step   *)
(* of it stays in.                                                         *)
Steps(A, n) == [1..n -> [A -> A]]
Folds(A, n, a, step) ==
    \E f \in [0..n -> A] : f[0] = a /\ \A i \in 1..n : f[i] = step[i][f[i - 1]]

LEMMA FoldDefined ==
    ASSUME NEW A, NEW n \in Nat, NEW a \in A, NEW step \in Steps(A, n)
    PROVE  Folds(A, n, a, step)
<1> DEFINE Good(m) == \E f \in [0..m -> A] :
                 f[0] = a /\ \A i \in 1..m : f[i] = step[i][f[i - 1]]
           S == {m \in Nat : m <= n => Good(m)}
<1>1. Good(0)
  <2> DEFINE g == [i \in 0..0 |-> a]
  <2>1. g \in [0..0 -> A] /\ g[0] = a /\ \A i \in 1..0 : g[i] = step[i][g[i - 1]]
    OBVIOUS
  <2> QED
    BY <2>1
<1>2. ASSUME NEW m \in Nat, m + 1 <= n, Good(m) PROVE Good(m + 1)
  <2>1. PICK f \in [0..m -> A] : f[0] = a /\ \A i \in 1..m : f[i] = step[i][f[i - 1]]
    BY <1>2
  <2> DEFINE g == [i \in 0..(m + 1) |-> IF i = m + 1 THEN step[m + 1][f[m]] ELSE f[i]]
  <2>2. step[m + 1][f[m]] \in A
    <3>1. f[m] \in A /\ step[m + 1] \in [A -> A]
      BY <1>2 DEF Steps
    <3> QED
      BY <3>1
  <2>3. g \in [0..(m + 1) -> A]
    <3>1. \A i \in 0..(m + 1) : i # m + 1 => i \in 0..m
      BY <1>2
    <3> QED
      BY <2>2, <3>1
  <2>4. g[0] = a
    BY <2>1
  <2>5. ASSUME NEW i \in 1..(m + 1) PROVE g[i] = step[i][g[i - 1]]
    <3>1. CASE i = m + 1
      <4>1. g[i - 1] = f[m]
        BY <1>2, <3>1
      <4> QED
        BY <1>2, <3>1, <4>1
    <3>2. CASE i # m + 1
      <4>1. i \in 1..m /\ i - 1 \in 0..m /\ i - 1 # m + 1
        BY <1>2, <3>2
      <4>2. g[i] = f[i] /\ g[i - 1] = f[i - 1]
        BY <3>2, <4>1
      <4> QED
        BY <2>1, <4>1, <4>2
    <3> QED
      BY <3>1, <3>2
  <2> HIDE DEF g
  <2> QED
    BY <2>3, <2>4, <2>5
<1>3. 0 \in S /\ \A m \in Nat : m \in S => m + 1 \in S
  <2> HIDE DEF Good
  <2> QED
    BY <1>1, <1>2
<1> HIDE DEF S
<1>4. n \in S
  BY <1>3, SetInduction
<1> QED
  BY <1>4 DEF S, Folds

LEMMA FoldStays ==
    ASSUME NEW A, NEW n \in Nat, NEW g, g[0] \in A,
           \A i \in 1..n : g[i - 1] \in A => g[i] \in A
    PROVE  g[n] \in A
<1> DEFINE S == {i \in Nat : i <= n => g[i] \in A}
<1>1. 0 \in S
  OBVIOUS
<1>2. ASSUME NEW i \in Nat, i \in S PROVE i + 1 \in S
  <2> SUFFICES ASSUME i + 1 <= n PROVE g[i + 1] \in A
    OBVIOUS
  <2>1. g[i] \in A
    BY <1>2
  <2>2. i + 1 \in 1..n /\ (i + 1) - 1 = i
    BY <1>2
  <2> QED
    BY <2>1, <2>2
<1> HIDE DEF S
<1>3. n \in S
  BY <1>1, <1>2, SetInduction
<1> QED
  BY <1>3 DEF S
-----------------------------------------------------------------------------
(* The windows under the mouse.                                            *)

Pane == [offset : Int, grow : Int, visible : BOOLEAN, laid : BOOLEAN, sure : BOOLEAN,
         focus : -1..Cardinality(Panes), drag : Int, resize : Int]
Cursor == [x : Int, left : BOOLEAN, active : BOOLEAN, count : Nat]

(* A window keeps its limits, and a drag that is sure began inside it: the *)
(* grip is as far from its left edge as it was then.                       *)
PaneKept(p, w) ==
    /\ Size + p.grow \in MinSize..MaxSize
    /\ p.sure => p.laid /\ DockedAt[w] <= p.drag /\ p.drag <= DockedAt[w] + Size + p.grow

(* Where the mouse has taken a window it drags.                            *)
Follows(p, x) == p.drag >= 0 /\ p.sure => p.offset = x - p.drag

(* What the windows hand to each other in a frame: the input, without the  *)
(* button once a window has moved, and the one that has.                   *)
Handed(x) ==
    {acc \in [pane : [Panes -> Pane], moved : SUBSET Panes, in : Cursor] :
        /\ acc.in.x = x
        /\ \A w \in Panes : PaneKept(acc.pane[w], w)
        /\ acc.moved # {} => ~acc.in.left /\ \E w \in Panes : acc.moved = {w}
        /\ \A w \in acc.moved : Follows(acc.pane[w], x)}

WindowsInv == WindowsKept /\ pane \in [Panes -> Pane] /\ \A w \in Panes : PaneKept(pane[w], w)

LEMMA Measures ==
    /\ MinSize \in Nat /\ MaxSize \in Nat /\ Size \in MinSize..MaxSize /\ Screen \in Nat
    /\ Corner \in Nat /\ Close \in Nat /\ Margin \in Nat
    /\ \A w \in Panes : DockedAt[w] \in 0..Screen
    /\ IsFiniteSet(Panes) /\ Cardinality(Panes) \in Nat
    /\ Boards \subseteq Panes /\ Radars \subseteq Panes
  BY WindowsAssumption, FS_CardinalityType DEF Panes

LEMMA CardsBelow ==
    ASSUME NEW S, S \subseteq Panes, NEW I, NEW f \in [S -> I],
           \A i \in I : \E u \in S : f[u] = i
    PROVE  Cardinality(I) \in 0..Cardinality(Panes)
<1>1. IsFiniteSet(S) /\ Cardinality(S) <= Cardinality(Panes) /\ Cardinality(S) \in Nat
  BY Measures, FS_Subset, FS_CardinalityType
<1>2. f \in Surjection(S, I)
  BY DEF Surjection
<1>3. IsFiniteSet(I) /\ Cardinality(I) <= Cardinality(S)
  BY <1>1, <1>2, FS_Surjection
<1>4. Cardinality(I) \in Nat
  BY <1>3, FS_CardinalityType
<1> QED
  BY <1>1, <1>3, <1>4, Measures

SameButFocus(q, p) ==
    /\ q.sure = p.sure /\ q.laid = p.laid /\ q.drag = p.drag /\ q.grow = p.grow
    /\ q.offset = p.offset

(* Giving a window the focus changes the order of windows only.            *)
LEMMA FocusedKeeps ==
    ASSUME NEW p \in [Panes -> Pane], NEW w \in Panes
    PROVE  /\ Focused(p, w) \in [Panes -> Pane]
           /\ \A v \in Panes : SameButFocus(Focused(p, w)[v], p[v])
<1> DEFINE below(v) == {p[u].focus : u \in {u \in Boards \ {w} : p[u].focus \in 1..p[v].focus}}
           next(v) == IF v \in Radars THEN p[v]
                      ELSE IF v = w THEN [p[v] EXCEPT !.focus = Cardinality(Boards)]
                      ELSE [p[v] EXCEPT !.focus = IF @ = 0 THEN 0 ELSE Cardinality(below(v))]
<1>1. Focused(p, w) = [v \in Panes |-> next(v)]
  BY DEF Focused
<1>2. ASSUME NEW v \in Panes
      PROVE  \E f \in -1..Cardinality(Panes) : next(v) = [p[v] EXCEPT !.focus = f]
  <2>1. p[v] \in Pane /\ p[v].focus \in -1..Cardinality(Panes)
    BY DEF Pane
  <2>2. Cardinality(Boards) \in -1..Cardinality(Panes) /\ 0 \in -1..Cardinality(Panes)
    <3>1. Cardinality(Boards) <= Cardinality(Panes) /\ Cardinality(Boards) \in Nat
      BY Measures, FS_Subset, FS_CardinalityType
    <3> QED
      BY <3>1, Measures
  <2>3. Cardinality(below(v)) \in -1..Cardinality(Panes)
    <3> DEFINE S == {u \in Boards \ {w} : p[u].focus \in 1..p[v].focus}
               g == [u \in S |-> p[u].focus]
    <3>1. S \subseteq Panes /\ g \in [S -> below(v)]
      BY Measures
    <3>2. \A i \in below(v) : \E u \in S : g[u] = i
      OBVIOUS
    <3> HIDE DEF S, g, below
    <3>3. Cardinality(below(v)) \in 0..Cardinality(Panes)
      BY <3>1, <3>2, CardsBelow
    <3> QED
      BY <3>3, Measures
  <2>4. p[v] = [p[v] EXCEPT !.focus = p[v].focus]
    BY <2>1 DEF Pane
  <2> HIDE DEF below
  <2> QED
    BY <2>1, <2>2, <2>3, <2>4
<1>3. ASSUME NEW v \in Panes PROVE next(v) \in Pane /\ SameButFocus(next(v), p[v])
  <2>1. PICK f \in -1..Cardinality(Panes) : next(v) = [p[v] EXCEPT !.focus = f]
    BY <1>2
  <2>2. p[v] \in Pane
    OBVIOUS
  <2> HIDE DEF next
  <2> QED
    BY <2>1, <2>2 DEF Pane, SameButFocus
<1> HIDE DEF next
<1> QED
  BY <1>1, <1>3

LEMMA FieldsOf ==
    ASSUME NEW p \in Pane
    PROVE  /\ p.offset \in Int /\ p.grow \in Int /\ p.visible \in BOOLEAN /\ p.laid \in BOOLEAN
           /\ p.sure \in BOOLEAN /\ p.focus \in -1..Cardinality(Panes)
           /\ p.drag \in Int /\ p.resize \in Int
  BY DEF Pane

(* Taking and losing the grip: whoever takes it has the mouse over him.    *)
LEMMA GrippedKeeps ==
    ASSUME NEW p \in [Panes -> Pane], NEW w \in Panes, NEW in \in Cursor, PaneKept(p[w], w)
    PROVE  LET me == Gripped(p, w, in)
           IN  /\ me \in Pane /\ PaneKept(me, w)
               /\ ~in.left => me.drag = NoGrip /\ me.resize = NoGrip
<1> DEFINE down == in.left /\ (w \in Radars \/ in.active)
           press == down /\ in.count = 1
           corner == OverCorner(p, w, in.x)
           over == Over(p, w, in.x)
           grabs == press /\ p[w].drag < 0 /\ over /\ ~corner
           resizes == press /\ p[w].resize < 0 /\ corner
           d == IF ~down THEN NoGrip ELSE IF grabs THEN in.x - p[w].offset ELSE p[w].drag
           s == IF ~down THEN FALSE ELSE IF grabs THEN p[w].laid ELSE p[w].sure
           r == IF ~down THEN NoGrip ELSE IF resizes THEN in.x - p[w].grow ELSE p[w].resize
           me == Gripped(p, w, in)
<1>1. me = [p[w] EXCEPT !.drag = d, !.sure = s, !.resize = r]
  BY DEF Gripped
<1>2. p[w] \in Pane /\ in.x \in Int
  BY DEF Cursor
<1>3. d \in Int /\ s \in BOOLEAN /\ r \in Int
  <2>1. /\ p[w].offset \in Int /\ p[w].grow \in Int /\ p[w].drag \in Int /\ p[w].resize \in Int
        /\ p[w].laid \in BOOLEAN /\ p[w].sure \in BOOLEAN
    BY <1>2, FieldsOf
  <2> HIDE DEF down, grabs, resizes
  <2>2. d \in Int /\ r \in Int
    BY <1>2, <2>1 DEF NoGrip
  <2>3. s \in BOOLEAN
    BY <2>1
  <2> QED
    BY <2>2, <2>3
<1>4. grabs /\ p[w].laid => DockedAt[w] <= d /\ d <= DockedAt[w] + Size + p[w].grow
  <2> SUFFICES ASSUME down, over, grabs, p[w].laid
               PROVE  DockedAt[w] <= d /\ d <= DockedAt[w] + Size + p[w].grow
    OBVIOUS
  <2>1. d = in.x - p[w].offset
    OBVIOUS
  <2>2. /\ DockedAt[w] + p[w].offset <= in.x
        /\ in.x <= DockedAt[w] + p[w].offset + (Size + p[w].grow)
    <3>1. in.x \in Left(p, w)..Right(p, w)
      BY DEF Over
    <3>2. Left(p, w) = DockedAt[w] + p[w].offset /\ Wide(p, w) = Size + p[w].grow
      BY DEF Left, Wide
    <3>3. Right(p, w) = (DockedAt[w] + p[w].offset) + (Size + p[w].grow)
      BY <3>2 DEF Right
    <3> QED
      BY <1>2, <3>1, <3>2, <3>3, FieldsOf, Measures
  <2> HIDE DEF d
  <2> QED
    BY <1>2, <2>1, <2>2, FieldsOf, Measures
<1>5. /\ me \in Pane /\ me.drag = d /\ me.sure = s /\ me.resize = r
      /\ me.grow = p[w].grow /\ me.laid = p[w].laid
  <2> HIDE DEF d, s, r
  <2> HIDE DEF me
  <2> QED
    BY <1>1, <1>2, <1>3 DEF Pane
<1>6. s => p[w].laid /\ DockedAt[w] <= d /\ d <= DockedAt[w] + Size + p[w].grow
  <2>1. CASE grabs
    BY <1>4, <2>1
  <2>2. CASE ~grabs
    <3>1. s => down /\ s = p[w].sure /\ d = p[w].drag
      BY <2>2
    <3> HIDE DEF s, d, grabs, down
    <3> QED
      BY <3>1 DEF PaneKept
  <2> QED
    BY <2>1, <2>2
<1>7. PaneKept(me, w)
  <2> HIDE DEF me, s, d
  <2> QED
    BY <1>5, <1>6 DEF PaneKept
<1>8. ~in.left => d = NoGrip /\ r = NoGrip
  OBVIOUS
<1>9. /\ me \in Pane /\ PaneKept(me, w)
      /\ ~in.left => me.drag = NoGrip /\ me.resize = NoGrip
  <2> HIDE DEF me, d, r
  <2> QED
    BY <1>5, <1>7, <1>8
<1> QED
  BY <1>9

LEMMA ClampedWithin ==
    ASSUME NEW g \in Int
    PROVE  Clamped(g) \in Int /\ Size + Clamped(g) \in MinSize..MaxSize
  BY Measures DEF Clamped

(* What a window does with the mouse of the frame, and what it leaves of   *)
(* it to the next: one that has moved takes the button away.               *)
LEMMA UpdateDragKeeps ==
    ASSUME NEW x \in Int, NEW acc \in Handed(x), NEW w \in Panes
    PROVE  UpdateDrag(acc, w) \in Handed(x)
<1> DEFINE in == acc.in
           p == IF Over(acc.pane, w, in.x) /\ in.count = 1 /\ in.active /\ w \in Boards
                THEN Focused(acc.pane, w) ELSE acc.pane
           me == Gripped(p, w, in)
           after == IF me.drag >= 0 THEN [me EXCEPT !.offset = in.x - me.drag]
                    ELSE IF me.resize >= 0 THEN [me EXCEPT !.grow = Clamped(in.x - me.resize)]
                    ELSE me
           takes == me.drag >= 0 \/ me.resize >= 0
           in2 == IF takes THEN [in EXCEPT !.left = FALSE, !.count = 0] ELSE in
           pane2 == [p EXCEPT ![w] = after]
           moved2 == IF takes THEN acc.moved \cup {w} ELSE acc.moved
<1>1. /\ acc.pane \in [Panes -> Pane] /\ acc.moved \subseteq Panes /\ in \in Cursor /\ in.x = x
      /\ \A v \in Panes : PaneKept(acc.pane[v], v)
      /\ acc.moved # {} => ~in.left /\ \E v \in Panes : acc.moved = {v}
      /\ \A v \in acc.moved : Follows(acc.pane[v], x)
  BY DEF Handed
<1>2. UpdateDrag(acc, w) = [in |-> in2, pane |-> pane2, moved |-> moved2]
  BY DEF UpdateDrag
<1>3. /\ p \in [Panes -> Pane]
      /\ \A v \in Panes : PaneKept(p[v], v)
      /\ \A v \in acc.moved : Follows(p[v], x)
  <2>1. CASE p = acc.pane
    BY <1>1, <2>1
  <2>2. CASE p = Focused(acc.pane, w)
    <3>1. p \in [Panes -> Pane]
      BY <1>1, <2>2, FocusedKeeps
    <3>2. \A v \in Panes : SameButFocus(p[v], acc.pane[v])
      BY <1>1, <2>2, FocusedKeeps
    <3> HIDE DEF p
    <3> QED
      BY <1>1, <3>1, <3>2 DEF PaneKept, Follows, SameButFocus
  <2> QED
    BY <2>1, <2>2
<1> HIDE DEF p, in
<1>4. /\ me \in Pane /\ PaneKept(me, w)
      /\ ~in.left => me.drag = NoGrip /\ me.resize = NoGrip
  BY <1>1, <1>3, GrippedKeeps
<1> HIDE DEF me
<1>5. me.drag \in Int /\ me.resize \in Int
  BY <1>4, FieldsOf
<1>6. after \in Pane /\ PaneKept(after, w) /\ Follows(after, x)
  <2>1. CASE me.drag >= 0
    <3>1. after = [me EXCEPT !.offset = x - me.drag]
      BY <1>1, <2>1
    <3>2. /\ after \in Pane /\ after.offset = x - me.drag /\ after.drag = me.drag
          /\ after.grow = me.grow /\ after.laid = me.laid /\ after.sure = me.sure
      <4> HIDE DEF after
      <4> QED
        BY <1>4, <1>5, <3>1 DEF Pane
    <3> HIDE DEF after
    <3> QED
      BY <1>4, <3>2 DEF PaneKept, Follows
  <2>2. CASE ~(me.drag >= 0) /\ me.resize >= 0
    <3> DEFINE g == Clamped(x - me.resize)
    <3>1. after = [me EXCEPT !.grow = g]
      BY <1>1, <2>2
    <3>2. g \in Int /\ Size + g \in MinSize..MaxSize
      BY <1>5, ClampedWithin
    <3> HIDE DEF g
    <3>3. /\ after \in Pane /\ after.drag = me.drag /\ after.grow = g /\ after.sure = me.sure
      <4> HIDE DEF after
      <4> QED
        BY <1>4, <3>1, <3>2 DEF Pane
    <3>4. ~me.sure
      <4>1. me.sure => DockedAt[w] <= me.drag
        BY <1>4 DEF PaneKept
      <4> QED
        BY <1>5, <2>2, <4>1, Measures
    <3> HIDE DEF after
    <3> QED
      BY <3>2, <3>3, <3>4 DEF PaneKept, Follows
  <2>3. CASE ~(me.drag >= 0) /\ ~(me.resize >= 0)
    <3>1. after = me
      BY <2>3
    <3> HIDE DEF after
    <3> QED
      BY <1>4, <2>3, <3>1 DEF Follows
  <2> QED
    BY <2>1, <2>2, <2>3
<1>7. ~takes => Follows(after, x)
  BY <1>6
<1> HIDE DEF after
<1>8. ~in.left => ~takes
  BY <1>4 DEF NoGrip
<1>9. in2 \in Cursor /\ in2.x = x /\ (takes => ~in2.left) /\ (~takes => in2 = in)
  <2>1. CASE takes
    <3>1. in2 = [in EXCEPT !.left = FALSE, !.count = 0]
      BY <2>1
    <3> HIDE DEF in2, takes
    <3> QED
      BY <1>1, <2>1, <3>1 DEF Cursor
  <2>2. CASE ~takes
    BY <1>1, <2>2
  <2> QED
    BY <2>1, <2>2
<1>10. pane2 \in [Panes -> Pane] /\ pane2[w] = after /\ \A v \in Panes \ {w} : pane2[v] = p[v]
  BY <1>3, <1>6
<1> HIDE DEF in2, pane2
<1>11. /\ moved2 \subseteq Panes
       /\ moved2 # {} => ~in2.left /\ \E v \in Panes : moved2 = {v}
  <2>1. CASE takes
    <3>1. acc.moved = {}
      BY <1>1, <1>8, <2>1
    <3> QED
      BY <1>9, <2>1, <3>1
  <2>2. CASE ~takes
    BY <1>1, <1>9, <2>2
  <2> QED
    BY <2>1, <2>2
<1>12. \A v \in moved2 : Follows(pane2[v], x)
  BY <1>1, <1>3, <1>6, <1>10, <1>11
<1>13. \A v \in Panes : PaneKept(pane2[v], v)
  BY <1>3, <1>6, <1>10
<1> HIDE DEF moved2
<1> QED
  BY <1>2, <1>9, <1>10, <1>11, <1>12, <1>13 DEF Handed

LEMMA ProcessWindowKeeps ==
    ASSUME NEW x \in Int, NEW acc \in Handed(x), NEW w \in Panes
    PROVE  ProcessWindow(acc, w) \in Handed(x)
  BY UpdateDragKeeps DEF ProcessWindow

(* So does the whole list of them, from the back to the front.             *)
LEMMA ProcessWindowsKeep ==
    ASSUME NEW x \in Int, NEW acc \in Handed(x), order \in Orders
    PROVE  ProcessWindows(acc) \in Handed(x)
<1> DEFINE A == Handed(x)
           n == Cardinality(Panes)
           step == [i \in 1..n |-> [a \in A |-> ProcessWindow(a, order[i])]]
           Fold(g) == g = [i \in 0..Len(order) |->
                             IF i = 0 THEN acc ELSE ProcessWindow(g[i - 1], order[i])]
           upTo == CHOOSE g : Fold(g)
<1>1. n \in Nat /\ order \in [1..n -> Panes] /\ Len(order) = n
  BY Measures DEF Orders
<1>2. step \in [1..n -> [A -> A]]
  BY <1>1, ProcessWindowKeeps
<1>3. \A i \in 1..n, a \in A : step[i][a] = ProcessWindow(a, order[i])
  OBVIOUS
<1>0. acc \in A
  OBVIOUS
<1> HIDE DEF step, n, A
<1>4. PICK f \in [0..n -> A] : f[0] = acc /\ \A i \in 1..n : f[i] = step[i][f[i - 1]]
  <2>1. n \in Nat /\ step \in Steps(A, n)
    BY <1>1, <1>2 DEF Steps
  <2>2. Folds(A, n, acc, step)
    BY <1>0, <2>1, FoldDefined
  <2> QED
    BY <2>2 DEF Folds
<1>5. Fold(f)
  <2>1. ASSUME NEW i \in 0..n, i # 0
        PROVE  f[i] = ProcessWindow(f[i - 1], order[i])
    <3>1. i \in 1..n /\ order[i] \in Panes /\ f[i - 1] \in A
      BY <1>1, <1>4, <2>1
    <3> QED
      BY <1>3, <1>4, <3>1
  <2> QED
    BY <1>1, <1>4, <2>1
<1>6. Fold(upTo)
  <2> HIDE DEF Fold
  <2> QED
    BY <1>5
<1>7. ProcessWindows(acc) = upTo[n]
  BY <1>1 DEF ProcessWindows
<1> HIDE DEF upTo
<1>8. upTo[0] \in A
  BY <1>0, <1>1, <1>6
<1>9. ASSUME NEW i \in 1..n, upTo[i - 1] \in A
      PROVE  upTo[i] \in A
  <2>1. upTo[i] = ProcessWindow(upTo[i - 1], order[i]) /\ order[i] \in Panes
    BY <1>1, <1>6
  <2> QED
    BY <1>9, <2>1, ProcessWindowKeeps DEF A
<1>10. upTo[n] \in A
  BY <1>1, <1>8, <1>9, FoldStays
<1> QED
  BY <1>7, <1>10 DEF A

(* The close buttons and the icons of the dashboard move nothing: an icon   *)
(* that brings a window back gives it its first place and size, and no     *)
(* drag is sure of that.                                                   *)
LEMMA ButtonKeeps ==
    ASSUME NEW x \in Int, NEW acc \in Handed(x), NEW w \in Panes, NEW q \in Pane,
           PaneKept(q, w), Follows(acc.pane[w], x) => Follows(q, x), NEW b,
           b = [acc EXCEPT !.pane[w] = q, !.in.left = FALSE, !.in.count = 0]
    PROVE  b \in Handed(x)
<1>1. /\ acc \in [pane : [Panes -> Pane], moved : SUBSET Panes, in : Cursor] /\ acc.in.x = x
      /\ \A v \in Panes : PaneKept(acc.pane[v], v)
      /\ acc.moved # {} => ~acc.in.left /\ \E v \in Panes : acc.moved = {v}
      /\ \A v \in acc.moved : Follows(acc.pane[v], x)
  BY DEF Handed
<1>2. /\ b.moved = acc.moved /\ b.pane = [acc.pane EXCEPT ![w] = q]
      /\ b.in = [acc.in EXCEPT !.left = FALSE, !.count = 0]
      /\ b = [pane |-> b.pane, moved |-> b.moved, in |-> b.in]
  BY <1>1
<1>3. b.pane \in [Panes -> Pane] /\ b.pane[w] = q /\ \A v \in Panes \ {w} : b.pane[v] = acc.pane[v]
  BY <1>1, <1>2
<1>4. b.in \in Cursor /\ b.in.x = x /\ ~b.in.left
  <2>1. acc.in \in Cursor
    BY <1>1
  <2> QED
    BY <1>1, <1>2, <2>1 DEF Cursor
<1>5. b \in [pane : [Panes -> Pane], moved : SUBSET Panes, in : Cursor]
  BY <1>1, <1>2, <1>3, <1>4
<1>6. \A v \in Panes : PaneKept(b.pane[v], v)
  BY <1>1, <1>3
<1>7. \A v \in b.moved : Follows(b.pane[v], x)
  BY <1>1, <1>2, <1>3
<1> QED
  BY <1>1, <1>2, <1>4, <1>5, <1>6, <1>7 DEF Handed

LEMMA ClosingKeeps ==
    ASSUME NEW x \in Int, NEW acc \in Handed(x), NEW w \in Panes
    PROVE  Closing(acc, w) \in Handed(x)
<1> DEFINE q == [acc.pane[w] EXCEPT !.visible = FALSE]
           b == [acc EXCEPT !.pane[w] = q, !.in.left = FALSE, !.in.count = 0]
<1>1. acc.pane[w] \in Pane /\ PaneKept(acc.pane[w], w)
  BY DEF Handed
<1>2. /\ q \in Pane /\ q.sure = acc.pane[w].sure /\ q.laid = acc.pane[w].laid
      /\ q.drag = acc.pane[w].drag /\ q.grow = acc.pane[w].grow
      /\ q.offset = acc.pane[w].offset
  BY <1>1 DEF Pane
<1>3. Closing(acc, w) \in {acc, b}
  BY DEF Closing
<1> HIDE DEF q
<1>4. PaneKept(q, w) /\ (Follows(acc.pane[w], x) => Follows(q, x))
  BY <1>1, <1>2 DEF PaneKept, Follows
<1>5. b \in Handed(x)
  BY <1>2, <1>4, ButtonKeeps
<1> HIDE DEF b
<1> QED
  BY <1>3, <1>5

LEMMA ToggledKeeps ==
    ASSUME NEW p \in [Panes -> Pane], NEW w \in Panes, PaneKept(p[w], w), NEW x \in Int
    PROVE  LET q == Toggled(p, w)
           IN  q \in Pane /\ PaneKept(q, w) /\ (Follows(p[w], x) => Follows(q, x))
<1> DEFINE v == ~p[w].visible
           q == Toggled(p, w)
<1>1. p[w] \in Pane /\ v \in BOOLEAN
  OBVIOUS
<1>2. CASE OffScreen(p, w)
  <2>1. q = [p[w] EXCEPT !.visible = v, !.offset = 0, !.grow = 0, !.sure = FALSE]
    BY <1>2 DEF Toggled
  <2> HIDE DEF v, q
  <2>2. q \in Pane
    <3> DEFINE zero == 0
               no == FALSE
    <3>1. zero \in Int /\ no \in BOOLEAN
      OBVIOUS
    <3>2. q = [p[w] EXCEPT !.visible = v, !.offset = zero, !.grow = zero, !.sure = no]
      BY <2>1
    <3> HIDE DEF zero, no
    <3> QED
      BY <1>1, <3>1, <3>2 DEF Pane
  <2>3. q.grow = 0 /\ q.sure = FALSE
    BY <1>1, <2>1 DEF Pane
  <2>4. PaneKept(q, w)
    BY <2>3, Measures DEF PaneKept
  <2>5. Follows(q, x)
    BY <2>3 DEF Follows
  <2> QED
    BY <2>2, <2>4, <2>5 DEF q
<1>3. CASE ~OffScreen(p, w)
  <2>1. q = [p[w] EXCEPT !.visible = v]
    BY <1>3 DEF Toggled
  <2> HIDE DEF v, q
  <2>2. /\ q \in Pane /\ q.sure = p[w].sure /\ q.laid = p[w].laid /\ q.drag = p[w].drag
        /\ q.grow = p[w].grow /\ q.offset = p[w].offset
    BY <1>1, <2>1 DEF Pane
  <2>3. PaneKept(q, w) /\ (Follows(p[w], x) => Follows(q, x))
    BY <2>2 DEF PaneKept, Follows
  <2> QED
    BY <2>2, <2>3 DEF q
<1> QED
  BY <1>2, <1>3

LEMMA IconifiedKeeps ==
    ASSUME NEW x \in Int, NEW acc \in Handed(x), NEW w \in Panes, NEW icons
    PROVE  Iconified(acc, w, icons) \in Handed(x)
<1> DEFINE q == Toggled(acc.pane, w)
           b == [acc EXCEPT !.pane[w] = q, !.in.left = FALSE, !.in.count = 0]
<1>1. acc.pane \in [Panes -> Pane] /\ PaneKept(acc.pane[w], w)
  BY DEF Handed
<1>2. q \in Pane /\ PaneKept(q, w) /\ (Follows(acc.pane[w], x) => Follows(q, x))
  BY <1>1, ToggledKeeps
<1>3. Iconified(acc, w, icons) \in {acc, b}
  BY DEF Iconified
<1> HIDE DEF q
<1>4. b \in Handed(x)
  BY <1>2, ButtonKeeps
<1> HIDE DEF b
<1> QED
  BY <1>3, <1>4

LEMMA ProcessInputIconsKeeps ==
    ASSUME NEW x \in Int, NEW acc \in Handed(x), NEW icons, order \in Orders
    PROVE  ProcessInputIcons(acc, icons) \in Handed(x)
<1> DEFINE A == Handed(x)
           n == Cardinality(Panes)
           Next(a, w) == Iconified(Closing(a, w), w, icons)
           step == [i \in 1..n |-> [a \in A |-> Next(a, order[i])]]
           Fold(g) == g = [i \in 0..Len(order) |->
                             IF i = 0 THEN acc
                             ELSE Iconified(Closing(g[i - 1], order[i]), order[i], icons)]
           upTo == CHOOSE g : Fold(g)
<1>1. n \in Nat /\ order \in [1..n -> Panes] /\ Len(order) = n
  BY Measures DEF Orders
<1>2. \A a \in A, w \in Panes : Next(a, w) \in A
  BY ClosingKeeps, IconifiedKeeps
<1>3. Fold(upTo) <=> upTo = [i \in 0..n |-> IF i = 0 THEN acc ELSE Next(upTo[i - 1], order[i])]
  BY <1>1
<1>5. ProcessInputIcons(acc, icons) = upTo[n]
  BY <1>1 DEF ProcessInputIcons
<1>6. acc \in A
  OBVIOUS
<1> HIDE DEF Next, A
<1>7. step \in Steps(A, n)
  BY <1>1, <1>2 DEF Steps
<1>8. \A i \in 1..n, a \in A : step[i][a] = Next(a, order[i])
  OBVIOUS
<1> HIDE DEF step, n
<1>9. PICK f \in [0..n -> A] : f[0] = acc /\ \A i \in 1..n : f[i] = step[i][f[i - 1]]
  <2>1. n \in Nat
    BY <1>1
  <2>2. Folds(A, n, acc, step)
    BY <1>6, <1>7, <2>1, FoldDefined
  <2> QED
    BY <2>2 DEF Folds
<1>10. Fold(f)
  <2>1. ASSUME NEW i \in 0..n, i # 0
        PROVE  f[i] = Iconified(Closing(f[i - 1], order[i]), order[i], icons)
    <3>1. i \in 1..n /\ f[i - 1] \in A
      BY <1>1, <1>9, <2>1
    <3>2. f[i] = Next(f[i - 1], order[i])
      BY <1>8, <1>9, <3>1
    <3> QED
      BY <3>2 DEF Next
  <2> QED
    BY <1>1, <1>9, <2>1
<1> HIDE DEF Fold
<1>11. Fold(upTo)
  BY <1>10
<1> HIDE DEF upTo
<1>12. upTo = [i \in 0..n |-> IF i = 0 THEN acc ELSE Next(upTo[i - 1], order[i])]
  BY <1>3, <1>11
<1>13. upTo[0] \in A
  BY <1>1, <1>6, <1>12
<1>14. ASSUME NEW i \in 1..n, upTo[i - 1] \in A PROVE upTo[i] \in A
  <2>1. upTo[i] = Next(upTo[i - 1], order[i]) /\ order[i] \in Panes
    BY <1>1, <1>12
  <2> QED
    BY <1>2, <1>14, <2>1
<1>15. upTo[n] \in A
  BY <1>1, <1>13, <1>14, FoldStays
<1> QED
  BY <1>5, <1>15 DEF A

(* The end of a frame.                                                     *)
LEMMA EndsKeep ==
    ASSUME WindowsInv, NEW x \in Int, NEW acc \in Handed(x), NEW left \in BOOLEAN,
           Ends(acc, x, left), order' \in Orders
    PROVE  WindowsInv'
<1>1. /\ acc.pane \in [Panes -> Pane] /\ acc.moved \subseteq Panes
      /\ \A w \in Panes : PaneKept(acc.pane[w], w)
      /\ acc.moved # {} => \E w \in Panes : acc.moved = {w}
      /\ \A w \in acc.moved : Follows(acc.pane[w], x)
  BY DEF Handed
<1>2. /\ held' = left /\ moved'.pane = acc.moved /\ pane' = Updated(acc.pane)
      /\ acc.moved # {} => moved'.mouse = x
  BY DEF Ends
<1>3. ASSUME NEW w \in Panes
      PROVE  /\ pane'[w] \in Pane /\ PaneKept(pane'[w], w)
             /\ Follows(acc.pane[w], x) => Follows(pane'[w], x)
  <2> DEFINE p == acc.pane[w]
             q == pane'[w]
             yes == TRUE
  <2>1. q = IF p.visible THEN [p EXCEPT !.laid = yes] ELSE p
    BY <1>1, <1>2 DEF Updated
  <2>2. p \in Pane /\ PaneKept(p, w) /\ yes \in BOOLEAN
    BY <1>1
  <2>3. CASE p.visible
    <3>1. q = [p EXCEPT !.laid = yes]
      BY <2>1, <2>3
    <3>2. /\ q \in Pane /\ q.sure = p.sure /\ q.laid = yes /\ q.drag = p.drag
          /\ q.grow = p.grow /\ q.offset = p.offset
      <4> HIDE DEF q, p, yes
      <4> QED
        BY <2>2, <3>1 DEF Pane
    <3>3. q.laid
      BY <3>2
    <3> HIDE DEF p, q
    <3> QED
      BY <2>2, <3>2, <3>3 DEF PaneKept, Follows, p, q
  <2>4. CASE ~p.visible
    BY <2>1, <2>2, <2>4
  <2> QED
    BY <2>3, <2>4
<1>4. pane' \in [Panes -> Pane]
  BY <1>1, <1>2, <1>3 DEF Updated
<1>5. WindowsTypeOK'
  BY <1>1, <1>2, <1>4 DEF WindowsTypeOK, Pane
<1>6. OneWindowMoves'
  <2>1. Cardinality(acc.moved) \in {0, 1}
    BY <1>1, FS_EmptySet, FS_Singleton
  <2> QED
    BY <1>2, <2>1 DEF OneWindowMoves
<1>7. DraggedUnderMouse'
  <2> SUFFICES ASSUME NEW w \in acc.moved, pane'[w].drag >= 0, pane'[w].sure
               PROVE  Over(pane', w, moved'.mouse)
    BY <1>2 DEF DraggedUnderMouse
  <2> DEFINE q == pane'[w]
             d == DockedAt[w]
  <2>1. q \in Pane /\ PaneKept(q, w) /\ Follows(q, x) /\ moved'.mouse = x /\ w \in Panes
    BY <1>1, <1>2, <1>3
  <2>2. /\ q.offset = x - q.drag /\ q.laid
        /\ d <= q.drag /\ q.drag <= d + Size + q.grow
    BY <2>1 DEF PaneKept, Follows
  <2>3. q.offset \in Int /\ q.drag \in Int /\ q.grow \in Int /\ d \in Int /\ Size \in Int
    BY <2>1, FieldsOf, Measures
  <2>4. Left(pane', w) = d + q.offset /\ Right(pane', w) = (d + q.offset) + (Size + q.grow)
    BY <2>2 DEF Left, Right, Wide
  <2> HIDE DEF q, d
  <2>5. x \in (d + q.offset)..((d + q.offset) + (Size + q.grow))
    BY <2>2, <2>3
  <2> QED
    BY <2>1, <2>4, <2>5 DEF Over
<1>8. SizeWithinLimits'
  BY <1>3 DEF SizeWithinLimits, PaneKept
<1> QED
  BY <1>3, <1>4, <1>5, <1>6, <1>7, <1>8 DEF WindowsInv, WindowsKept

LEMMA GivenIsHanded ==
    ASSUME WindowsInv, NEW x \in Int, NEW left \in BOOLEAN, NEW active \in BOOLEAN
    PROVE  Given(x, left, active) \in Handed(x)
  BY DEF Given, Handed, WindowsInv, Cursor

(* The other steps move no window.                                         *)
LEMMA StillKeeps ==
    ASSUME WindowsInv, pane' \in [Panes -> Pane], \A w \in Panes : PaneKept(pane'[w], w),
           order' \in Orders, held' \in BOOLEAN, moved' = NothingMoved
    PROVE  WindowsInv'
<1>1. moved'.pane = {}
  BY DEF NothingMoved
<1>2. WindowsTypeOK'
  BY <1>1 DEF WindowsTypeOK, Pane
<1>3. OneWindowMoves'
  BY <1>1, FS_EmptySet DEF OneWindowMoves
<1>4. DraggedUnderMouse'
  BY <1>1 DEF DraggedUnderMouse
<1>5. SizeWithinLimits'
  BY DEF SizeWithinLimits, PaneKept
<1> QED
  BY <1>2, <1>3, <1>4, <1>5 DEF WindowsInv, WindowsKept

LEMMA WindowsInitially == WindowsInit => WindowsInv
<1> SUFFICES ASSUME WindowsInit PROVE WindowsInv
  OBVIOUS
<1>1. PICK unhidden \in SUBSET Panes :
          pane = [w \in Panes |-> [offset |-> 0, grow |-> 0, visible |-> w \in unhidden,
                                   laid |-> FALSE, sure |-> FALSE,
                                   focus |-> IF w \in Radars THEN -1 ELSE 0,
                                   drag |-> NoGrip, resize |-> NoGrip]]
  BY DEF WindowsInit
<1>2. order \in Orders /\ held = FALSE /\ moved = NothingMoved
  BY DEF WindowsInit
<1>3. ASSUME NEW w \in Panes
      PROVE  pane[w] \in Pane /\ pane[w].grow = 0 /\ pane[w].sure = FALSE
  <2> DEFINE v == w \in unhidden
             no == FALSE
             f == IF w \in Radars THEN -1 ELSE 0
             q == [offset |-> 0, grow |-> 0, visible |-> v, laid |-> no, sure |-> no,
                   focus |-> f, drag |-> NoGrip, resize |-> NoGrip]
  <2>1. pane[w] = q
    BY <1>1
  <2>2. v \in BOOLEAN /\ no \in BOOLEAN /\ f \in -1..Cardinality(Panes) /\ NoGrip \in Int
    BY Measures DEF NoGrip
  <2> HIDE DEF v, f
  <2>3. q.grow = 0 /\ q.sure = no
    OBVIOUS
  <2> HIDE DEF no
  <2>4. q \in Pane
    BY <2>2 DEF Pane
  <2> HIDE DEF q
  <2> QED
    BY <2>1, <2>3, <2>4 DEF no
<1>4. pane \in [Panes -> Pane]
  BY <1>1, <1>3
<1>5. ASSUME NEW w \in Panes PROVE PaneKept(pane[w], w)
  <2>1. Size + pane[w].grow \in MinSize..MaxSize
    <3>1. Size + 0 \in MinSize..MaxSize
      BY Measures
    <3>2. pane[w].grow = 0
      BY <1>3
    <3> QED
      BY <3>1, <3>2
  <2>2. ~pane[w].sure
    BY <1>3
  <2> QED
    BY <2>1, <2>2 DEF PaneKept
<1>6. moved.pane = {}
  BY <1>2 DEF NothingMoved
<1>7. WindowsTypeOK
  BY <1>2, <1>4, <1>6 DEF WindowsTypeOK, Pane
<1>8. OneWindowMoves /\ DraggedUnderMouse
  BY <1>6, FS_EmptySet DEF OneWindowMoves, DraggedUnderMouse
<1>9. SizeWithinLimits
  BY <1>5 DEF SizeWithinLimits, PaneKept
<1> QED
  BY <1>4, <1>5, <1>7, <1>8, <1>9 DEF WindowsInv, WindowsKept

LEMMA WindowsStep == WindowsInv /\ [WindowsNext]_windowsVars => WindowsInv'
<1> SUFFICES ASSUME WindowsInv, [WindowsNext]_windowsVars PROVE WindowsInv'
  OBVIOUS
<1>0. /\ pane \in [Panes -> Pane] /\ \A w \in Panes : PaneKept(pane[w], w)
      /\ order \in Orders /\ held \in BOOLEAN
  BY DEF WindowsInv, WindowsKept, WindowsTypeOK
<1>1. ASSUME NEW x \in 0..Screen, NEW left \in BOOLEAN, NEW active \in BOOLEAN,
             MainFrame(x, left, active)
      PROVE  WindowsInv'
  <2> DEFINE acc == ProcessWindows(Given(x, left, active))
  <2>1. x \in Int
    BY Measures
  <2>2. acc \in Handed(x)
    BY <1>0, <2>1, GivenIsHanded, ProcessWindowsKeep
  <2>3. Ends(acc, x, left) /\ order' \in Orders
    BY <1>1 DEF MainFrame
  <2> HIDE DEF acc
  <2> QED
    BY <2>1, <2>2, <2>3, EndsKeep
<1>2. ASSUME NEW x \in 0..Screen, NEW left \in BOOLEAN, NEW active \in BOOLEAN,
             IconsFrame(x, left, active)
      PROVE  WindowsInv'
  <2> DEFINE acc == ProcessWindows(ProcessInputIcons(Given(x, left, active), {}))
  <2>1. x \in Int
    BY Measures
  <2>2. acc \in Handed(x)
    BY <1>0, <2>1, GivenIsHanded, ProcessInputIconsKeeps, ProcessWindowsKeep
  <2>3. Ends(acc, x, left) /\ order' \in Orders
    BY <1>0, <1>2 DEF IconsFrame
  <2> HIDE DEF acc
  <2> QED
    BY <2>1, <2>2, <2>3, EndsKeep
<1>3. ASSUME NEW w \in Panes, IconClicked(w) PROVE WindowsInv'
  <2> DEFINE far == 2 * Screen + MaxSize
             acc == ProcessWindows(ProcessInputIcons(Given(far, TRUE, TRUE), {w}))
  <2>1. far \in Int
    BY Measures
  <2>2. Ends(acc, far, TRUE) /\ order' \in Orders
    BY <1>0, <1>3 DEF IconClicked
  <2> HIDE DEF far
  <2>3. acc \in Handed(far)
    BY <1>0, <2>1, GivenIsHanded, ProcessInputIconsKeeps, ProcessWindowsKeep
  <2> HIDE DEF acc
  <2> QED
    BY <2>1, <2>2, <2>3, EndsKeep
<1>4. ASSUME NEW left \in BOOLEAN, OtherFrame(left) PROVE WindowsInv'
  BY <1>0, <1>4, StillKeeps DEF OtherFrame
<1>5. ASSUME NEW w \in Boards, ScriptSets(w) PROVE WindowsInv'
  <2> DEFINE v == ~pane[w].visible
             q == [pane[w] EXCEPT !.visible = v]
  <2>1. w \in Panes /\ v \in BOOLEAN /\ pane[w] \in Pane
    BY <1>0, Measures
  <2>2. pane' = [pane EXCEPT ![w] = q] /\ order' = order /\ held' = held /\ moved' = NothingMoved
    BY <1>5 DEF ScriptSets
  <2> HIDE DEF v
  <2>3. /\ q \in Pane /\ q.sure = pane[w].sure /\ q.laid = pane[w].laid
        /\ q.drag = pane[w].drag /\ q.grow = pane[w].grow
    BY <2>1 DEF Pane
  <2> HIDE DEF q
  <2>4. PaneKept(q, w)
    BY <1>0, <2>1, <2>3 DEF PaneKept
  <2>5. pane' \in [Panes -> Pane] /\ \A u \in Panes : PaneKept(pane'[u], u)
    BY <1>0, <2>1, <2>2, <2>3, <2>4
  <2> QED
    BY <1>0, <2>2, <2>5, StillKeeps
<1>6. ASSUME Reloaded PROVE WindowsInv'
  <2> DEFINE no == FALSE
             q(w) == IF w \in Boards THEN pane[w]
                     ELSE [pane[w] EXCEPT !.laid = no, !.sure = no, !.drag = NoGrip,
                                          !.resize = NoGrip]
  <2>1. /\ pane' = [w \in Panes |-> q(w)]
        /\ order' = order /\ held' = held /\ moved' = NothingMoved
    BY <1>6 DEF Reloaded
  <2>2. no \in BOOLEAN /\ NoGrip \in Int
    BY DEF NoGrip
  <2>3. ASSUME NEW w \in Panes PROVE q(w) \in Pane /\ PaneKept(q(w), w)
    <3>1. CASE w \in Boards
      BY <1>0, <3>1
    <3>2. CASE w \notin Boards
      <4> DEFINE r == [pane[w] EXCEPT !.laid = no, !.sure = no, !.drag = NoGrip,
                                      !.resize = NoGrip]
      <4>1. pane[w] \in Pane /\ PaneKept(pane[w], w)
        BY <1>0
      <4>2. q(w) = r
        BY <3>2
      <4> HIDE DEF no, q
      <4>3. r \in Pane /\ r.grow = pane[w].grow /\ r.sure = no
        BY <2>2, <4>1 DEF Pane
      <4> HIDE DEF r
      <4>4. PaneKept(r, w)
        BY <4>1, <4>3 DEF PaneKept, no
      <4> QED
        BY <4>2, <4>3, <4>4
    <3> QED
      BY <3>1, <3>2
  <2> HIDE DEF q
  <2>4. pane' \in [Panes -> Pane] /\ \A w \in Panes : PaneKept(pane'[w], w)
    BY <2>1, <2>3
  <2> QED
    BY <1>0, <2>1, <2>4, StillKeeps
<1>7. ASSUME UNCHANGED windowsVars PROVE WindowsInv'
  BY <1>7 DEF windowsVars, WindowsInv, WindowsKept, WindowsTypeOK, OneWindowMoves,
     DraggedUnderMouse, SizeWithinLimits, Over, Left, Right, Wide, PaneKept
<1> QED
  BY <1>1, <1>2, <1>3, <1>4, <1>5, <1>6, <1>7 DEF WindowsNext

WindowsSpec == WindowsInit /\ [][WindowsNext]_windowsVars

(* However large the screen, however many windows and whatever their       *)
(* places and limits: the mouse moves one window at a time, the window it  *)
(* drags stays under it, and none gets smaller or larger than its limits   *)
(* (ui/UIBoard.cpp:190-232).                                               *)
THEOREM WindowsAreKept == WindowsSpec => []WindowsKept
<1>1. WindowsSpec => []WindowsInv
  BY WindowsInitially, WindowsStep, PTL DEF WindowsSpec
<1>2. WindowsInv => WindowsKept
  BY DEF WindowsInv
<1> QED
  BY <1>1, <1>2, PTL

-----------------------------------------------------------------------------
(* The text input.                                                         *)

Glyphs == Chars \cup {NL}
Rows == Seq(Texts)
Page == [done : Rows, cur : Texts]

LEMMA BreakKeeps ==
    ASSUME NEW acc \in Page, NEW c \in Glyphs
    PROVE  /\ Break(acc, c) \in Page
           /\ Len(Break(acc, c).done) >= Len(acc.done)
<1> DEFINE line == IF c = NL THEN acc.cur ELSE Append(acc.cur, c)
           empty == <<>>
<1>1. acc.done \in Rows /\ acc.cur \in Texts
  BY DEF Page
<1>2. line \in Texts /\ empty \in Texts
  BY <1>1 DEF Texts, Glyphs
<1>3. Append(acc.done, line) \in Rows /\ Len(Append(acc.done, line)) = Len(acc.done) + 1
  BY <1>1, <1>2 DEF Rows
<1>4. Len(acc.done) \in Nat
  BY <1>1 DEF Rows
<1>5. \/ Break(acc, c) = [done |-> Append(acc.done, line), cur |-> empty]
      \/ Break(acc, c) = [acc EXCEPT !.cur = line]
  BY DEF Break
<1> HIDE DEF line, empty
<1>6. CASE Break(acc, c) = [done |-> Append(acc.done, line), cur |-> empty]
  BY <1>2, <1>3, <1>4, <1>6 DEF Page
<1>7. CASE Break(acc, c) = [acc EXCEPT !.cur = line]
  BY <1>1, <1>2, <1>4, <1>7 DEF Page
<1> QED
  BY <1>5, <1>6, <1>7

(* The pages a text is laid out through, one for each of its characters.   *)
Traces(f, acc, text) ==
    f[0] = acc /\ \A i \in 1..Len(text) : f[i] = Break(f[i - 1], text[i])
Trace(f, acc, text) == f \in [0..Len(text) -> Page] /\ Traces(f, acc, text)

LEMMA TraceIsUnique ==
    ASSUME NEW acc, NEW text \in Texts, NEW f, NEW g, Traces(f, acc, text), Traces(g, acc, text)
    PROVE  f[Len(text)] = g[Len(text)]
<1> DEFINE n == Len(text)
           S == {i \in Nat : i <= n => f[i] = g[i]}
<1>1. n \in Nat
  BY DEF Texts
<1>2. 0 \in S
  BY DEF Traces
<1>3. ASSUME NEW i \in Nat, i \in S PROVE i + 1 \in S
  <2> SUFFICES ASSUME i + 1 <= n PROVE f[i + 1] = g[i + 1]
    OBVIOUS
  <2>1. i + 1 \in 1..n /\ (i + 1) - 1 = i /\ f[i] = g[i]
    BY <1>1, <1>3
  <2>2. f[i + 1] = Break(f[i], text[i + 1]) /\ g[i + 1] = Break(g[i], text[i + 1])
    BY <2>1 DEF Traces
  <2> QED
    BY <2>1, <2>2
<1> HIDE DEF S
<1>4. n \in S
  BY <1>1, <1>2, <1>3, SetInduction
<1> QED
  BY <1>4 DEF S

LEMMA LinesAreTraced ==
    ASSUME NEW acc \in Page, NEW text \in Texts
    PROVE  \E f : Trace(f, acc, text) /\ LinesFrom(acc, text) = f[Len(text)]
<1> DEFINE n == Len(text)
           A == Page
           step == [i \in 1..n |-> [a \in A |-> Break(a, text[i])]]
           Fold(g) == g = [i \in 0..n |-> IF i = 0 THEN acc ELSE Break(g[i - 1], text[i])]
           upTo == CHOOSE g : Fold(g)
<1>1. n \in Nat /\ \A i \in 1..n : text[i] \in Glyphs
  BY DEF Texts, Glyphs
<1>2. step \in [1..n -> [A -> A]]
  BY <1>1, BreakKeeps
<1>3. \A i \in 1..n, a \in A : step[i][a] = Break(a, text[i])
  OBVIOUS
<1>4. acc \in A
  OBVIOUS
<1> HIDE DEF step, A
<1>5. PICK f \in [0..n -> A] : f[0] = acc /\ \A i \in 1..n : f[i] = step[i][f[i - 1]]
  <2>1. n \in Nat /\ step \in Steps(A, n)
    BY <1>1, <1>2 DEF Steps
  <2>2. Folds(A, n, acc, step)
    BY <1>4, <2>1, FoldDefined
  <2> QED
    BY <2>2 DEF Folds
<1>6. \A i \in 1..n : f[i] = Break(f[i - 1], text[i])
  <2> TAKE i \in 1..n
  <2>1. f[i - 1] \in A
    BY <1>1, <1>5
  <2> QED
    BY <1>3, <1>5, <2>1
<1>7. Fold(f)
  <2>1. ASSUME NEW i \in 0..n, i # 0 PROVE f[i] = Break(f[i - 1], text[i])
    <3>1. i \in 1..n
      BY <1>1, <2>1
    <3> QED
      BY <1>6, <3>1
  <2> QED
    BY <1>5, <2>1
<1>8. Fold(upTo)
  <2> HIDE DEF Fold
  <2> QED
    BY <1>7
<1>9. LinesFrom(acc, text) = upTo[n]
  BY DEF LinesFrom
<1> HIDE DEF upTo
<1>10. Traces(upTo, acc, text)
  BY <1>1, <1>8 DEF Traces
<1>11. Trace(f, acc, text)
  BY <1>5, <1>6 DEF Trace, Traces, A
<1>12. f[n] = upTo[n]
  BY <1>10, <1>11, TraceIsUnique DEF Trace
<1> QED
  BY <1>9, <1>11, <1>12

LEMMA LinesAreLong ==
    ASSUME NEW acc \in Page, NEW text \in Texts
    PROVE  /\ LinesFrom(acc, text) \in Page
           /\ Len(LinesFrom(acc, text).done) >= Len(acc.done)
<1>1. PICK f : Trace(f, acc, text) /\ LinesFrom(acc, text) = f[Len(text)]
  BY LinesAreTraced
<1> DEFINE n == Len(text)
           B == {a \in Page : Len(a.done) >= Len(acc.done)}
<1>2. n \in Nat /\ \A i \in 1..n : text[i] \in Glyphs
  BY DEF Texts, Glyphs
<1>3. \A a \in Page : Len(a.done) \in Nat
  BY DEF Page, Rows
<1>4. f[0] \in B
  BY <1>1, <1>3 DEF Trace, Traces
<1>5. ASSUME NEW i \in 1..n, f[i - 1] \in B PROVE f[i] \in B
  <2>1. f[i] = Break(f[i - 1], text[i]) /\ text[i] \in Glyphs
    BY <1>1, <1>2 DEF Trace, Traces
  <2>2. f[i] \in Page /\ Len(f[i].done) >= Len(f[i - 1].done)
    BY <1>5, <2>1, BreakKeeps
  <2> QED
    BY <1>3, <1>5, <2>2
<1> HIDE DEF B
<1>6. f[n] \in B
  BY <1>2, <1>4, <1>5, FoldStays
<1> QED
  BY <1>1, <1>6 DEF B

(* A text laid out in two parts is laid out as a whole.                    *)
LEMMA LinesGoOn ==
    ASSUME NEW acc \in Page, NEW s \in Texts, NEW t \in Texts
    PROVE  LinesFrom(LinesFrom(acc, s), t) = LinesFrom(acc, s \o t)
<1> DEFINE m == Len(s)
           n == Len(t)
           all == s \o t
           middle == LinesFrom(acc, s)
<1>1. /\ m \in Nat /\ n \in Nat /\ all \in Texts /\ Len(all) = m + n /\ middle \in Page
      /\ \A i \in 1..(m + n) : all[i] = IF i <= m THEN s[i] ELSE t[i - m]
  BY LinesAreLong DEF Texts
<1>2. PICK f : Trace(f, acc, s) /\ middle = f[m]
  BY LinesAreTraced
<1>3. PICK g : Trace(g, middle, t) /\ LinesFrom(middle, t) = g[n]
  BY <1>1, LinesAreTraced
<1>4. PICK h : Trace(h, acc, all) /\ LinesFrom(acc, all) = h[Len(all)]
  BY <1>1, LinesAreTraced
<1> DEFINE k == [i \in 0..(m + n) |-> IF i <= m THEN f[i] ELSE g[i - m]]
<1> HIDE DEF all, middle
<1>5. k[0] = acc
  BY <1>1, <1>2 DEF Trace, Traces
<1>6. ASSUME NEW i \in 1..(m + n) PROVE k[i] = Break(k[i - 1], all[i])
  <2>1. CASE i <= m
    <3>1. i \in 1..m /\ i - 1 \in 0..(m + n) /\ i - 1 <= m
      BY <1>1, <2>1
    <3>2. k[i] = f[i] /\ k[i - 1] = f[i - 1] /\ all[i] = s[i]
      BY <1>1, <2>1, <3>1
    <3>3. f[i] = Break(f[i - 1], s[i])
      BY <1>2, <3>1 DEF Trace, Traces
    <3> QED
      BY <3>2, <3>3
  <2>2. CASE ~(i <= m)
    <3>1. i - m \in 1..n /\ i - 1 \in 0..(m + n) /\ (i - m) - 1 = (i - 1) - m
      BY <1>1, <2>2
    <3>2. k[i] = g[i - m] /\ all[i] = t[i - m]
      BY <1>1, <2>2
    <3>3. k[i - 1] = g[(i - m) - 1]
      <4>1. CASE i - 1 <= m
        <5>1. i - 1 = m /\ (i - m) - 1 = 0
          BY <1>1, <2>2, <4>1
        <5>2. k[i - 1] = f[m] /\ g[0] = middle
          BY <1>3, <3>1, <5>1 DEF Trace, Traces
        <5> QED
          BY <1>2, <5>1, <5>2
      <4>2. CASE ~(i - 1 <= m)
        BY <3>1, <4>2
      <4> QED
        BY <4>1, <4>2
    <3>4. g[i - m] = Break(g[(i - m) - 1], t[i - m])
      BY <1>3, <3>1 DEF Trace, Traces
    <3> QED
      BY <3>2, <3>3, <3>4
  <2> QED
    BY <2>1, <2>2
<1>7. k[m + n] = g[n]
  <2>1. CASE n = 0
    <3>1. k[m + n] = f[m] /\ g[n] = middle
      BY <1>1, <1>3, <2>1 DEF Trace, Traces
    <3> QED
      BY <1>2, <3>1
  <2>2. CASE n # 0
    BY <1>1, <2>2
  <2> QED
    BY <2>1, <2>2
<1> HIDE DEF k
<1>8. Traces(h, acc, all) /\ Traces(k, acc, all)
  BY <1>1, <1>4, <1>5, <1>6 DEF Trace, Traces
<1>9. h[Len(all)] = k[Len(all)]
  BY <1>1, <1>8, TraceIsUnique
<1> QED
  BY <1>1, <1>3, <1>4, <1>7, <1>9 DEF all, middle

LEMMA EmptyIsPage == EmptyLines \in Page /\ EmptyLines.done = <<>> /\ EmptyLines.cur = <<>>
  BY DEF EmptyLines, Page, Rows, Texts

LEMMA BreakOnlyAdds ==
    ASSUME NEW acc \in Page, NEW c \in Glyphs, Len(Break(acc, c).done) = 0
    PROVE  Break(acc, c).done = acc.done /\ Break(acc, c).cur = Append(acc.cur, c)
<1> DEFINE line == IF c = NL THEN acc.cur ELSE Append(acc.cur, c)
           empty == <<>>
<1>1. acc.done \in Rows /\ acc.cur \in Texts
  BY DEF Page
<1>2. line \in Texts
  BY <1>1 DEF Texts, Glyphs
<1>3. Len(Append(acc.done, line)) = Len(acc.done) + 1 /\ Len(acc.done) \in Nat
  BY <1>1, <1>2 DEF Rows
<1>4. \/ Break(acc, c) = [done |-> Append(acc.done, line), cur |-> empty]
      \/ c # NL /\ Break(acc, c) = [acc EXCEPT !.cur = line]
  BY DEF Break
<1>5. c # NL => line = Append(acc.cur, c)
  OBVIOUS
<1> HIDE DEF line, empty
<1>6. CASE Break(acc, c) = [done |-> Append(acc.done, line), cur |-> empty]
  <2>1. Break(acc, c).done = Append(acc.done, line)
    BY <1>6
  <2> QED
    BY <1>3, <2>1
<1>7. CASE c # NL /\ Break(acc, c) = [acc EXCEPT !.cur = line]
  BY <1>5, <1>7 DEF Page
<1> QED
  BY <1>4, <1>6, <1>7

LEMMA PrefixGrows ==
    ASSUME NEW text \in Texts, NEW i \in Nat, i + 1 <= Len(text)
    PROVE  SubSeq(text, 1, i + 1) = Append(SubSeq(text, 1, i), text[i + 1])
<1> DEFINE s == SubSeq(text, 1, i)
           r == SubSeq(text, 1, i + 1)
           a == Append(s, text[i + 1])
<1>1. Len(text) \in Nat /\ \A j \in 1..Len(text) : text[j] \in Glyphs
  BY DEF Texts, Glyphs
<1>2. /\ s \in Seq(Glyphs) /\ Len(s) = i /\ \A j \in 1..i : s[j] = text[j]
      /\ r \in Seq(Glyphs) /\ Len(r) = i + 1 /\ \A j \in 1..(i + 1) : r[j] = text[j]
  BY <1>1 DEF Texts, Glyphs
<1> HIDE DEF s, r
<1>3. /\ a \in Seq(Glyphs) /\ Len(a) = i + 1
      /\ \A j \in 1..(i + 1) : a[j] = IF j = i + 1 THEN text[i + 1] ELSE s[j]
  BY <1>1, <1>2
<1> HIDE DEF a
<1>4. \A j \in 1..(i + 1) : a[j] = r[j]
  BY <1>2, <1>3
<1> QED
  BY <1>2, <1>3, <1>4 DEF s, r, a

LEMMA OneLine ==
    ASSUME NEW text \in Texts, LinesFrom(EmptyLines, text).done = <<>>
    PROVE  LinesFrom(EmptyLines, text).cur = text
<1> DEFINE n == Len(text)
           none == <<>>
<1>1. EmptyLines \in Page /\ EmptyLines.done = none /\ EmptyLines.cur = none
  BY DEF EmptyLines, Page, Rows, Texts
<1>2. PICK f : Trace(f, EmptyLines, text) /\ LinesFrom(EmptyLines, text) = f[n]
  BY <1>1, LinesAreTraced
<1>3. n \in Nat /\ \A i \in 1..n : text[i] \in Glyphs
  BY DEF Texts, Glyphs
<1> DEFINE T == {i \in Nat : i <= n => (Len(f[i].done) = 0 => f[i].cur = SubSeq(text, 1, i))}
<1>4. 0 \in T
  <2>1. f[0] = EmptyLines
    BY <1>2 DEF Trace, Traces
  <2>2. SubSeq(text, 1, 0) = <<>>
    BY DEF Texts
  <2> QED
    BY <1>1, <2>1, <2>2
<1>5. ASSUME NEW i \in Nat, i \in T PROVE i + 1 \in T
  <2> SUFFICES ASSUME i + 1 <= n, Len(f[i + 1].done) = 0 PROVE f[i + 1].cur = SubSeq(text, 1, i + 1)
    OBVIOUS
  <2>1. i + 1 \in 1..n /\ (i + 1) - 1 = i /\ i \in 0..n
    BY <1>3
  <2>2. f[i + 1] = Break(f[i], text[i + 1]) /\ f[i] \in Page /\ text[i + 1] \in Glyphs
    BY <1>2, <1>3, <2>1 DEF Trace, Traces
  <2>3. f[i + 1].done = f[i].done /\ f[i + 1].cur = Append(f[i].cur, text[i + 1])
    BY <2>2, BreakOnlyAdds
  <2>4. f[i].cur = SubSeq(text, 1, i)
    BY <1>5, <2>1, <2>3
  <2> QED
    BY <2>3, <2>4, PrefixGrows
<1> HIDE DEF T
<1>6. n \in T
  BY <1>3, <1>4, <1>5, SetInduction
<1>7. Len(f[n].done) = 0
  BY <1>2
<1>8. f[n].cur = SubSeq(text, 1, n)
  BY <1>6, <1>7 DEF T
<1>9. SubSeq(text, 1, n) = text
  BY DEF Texts
<1> QED
  BY <1>2, <1>8, <1>9

LEMMA NothingIsEmpty == LinesFrom(EmptyLines, <<>>) = EmptyLines
<1> DEFINE none == <<>>
<1>1. none \in Texts /\ Len(none) = 0
  BY DEF Texts
<1> HIDE DEF none
<1>2. PICK f : Trace(f, EmptyLines, none) /\ LinesFrom(EmptyLines, none) = f[Len(none)]
  BY <1>1, EmptyIsPage, LinesAreTraced
<1>3. LinesFrom(EmptyLines, none) = EmptyLines
  BY <1>1, <1>2 DEF Trace, Traces
<1> QED
  BY <1>3 DEF none

LEMMA SameText ==
    ASSUME NEW s \in Texts, NEW t \in Texts, Len(s) = Len(t), \A i \in 1..Len(s) : s[i] = t[i]
    PROVE  s = t
  BY DEF Texts

LEMMA PartOf ==
    ASSUME NEW s \in Texts, NEW i \in 1..(Len(s) + 1), NEW j \in (i - 1)..Len(s)
    PROVE  /\ SubSeq(s, i, j) \in Texts /\ Len(SubSeq(s, i, j)) = j - i + 1
           /\ \A k \in 1..(j - i + 1) : SubSeq(s, i, j)[k] = s[k + i - 1]
<1> DEFINE r == SubSeq(s, i, j)
<1>1. Len(s) \in Nat /\ i \in Int /\ j \in Int
  BY DEF Texts
<1>2. r = [k \in 1..(j - i + 1) |-> s[k + i - 1]]
  BY <1>1 DEF Texts
<1>3. \A k \in 1..(j - i + 1) : k + i - 1 \in 1..Len(s)
  BY <1>1
<1>4. \A k \in 1..(j - i + 1) : s[k + i - 1] \in Chars \cup {NL}
  BY <1>3 DEF Texts
<1>5. j - i + 1 \in Nat
  BY <1>1
<1> HIDE DEF r
<1>6. r \in Texts /\ Len(r) = j - i + 1
  BY <1>2, <1>4, <1>5 DEF Texts
<1> QED
  BY <1>2, <1>6 DEF r

LEMMA Joined ==
    ASSUME NEW s \in Texts, NEW t \in Texts
    PROVE  /\ s \o t \in Texts /\ Len(s \o t) = Len(s) + Len(t)
           /\ \A i \in 1..(Len(s) + Len(t)) :
                  (s \o t)[i] = IF i <= Len(s) THEN s[i] ELSE t[i - Len(s)]
  BY DEF Texts

LEMMA InsertIsText ==
    ASSUME NEW text \in Texts, NEW at \in 0..Len(text), NEW added \in Texts
    PROVE  /\ Insert(text, at, added) \in Texts
           /\ Len(Insert(text, at, added)) = Len(text) + Len(added)
<1> DEFINE a == SubSeq(text, 1, at)
           b == SubSeq(text, at + 1, Len(text))
<1>1. Len(text) \in Nat /\ at \in Nat /\ Len(added) \in Nat
  BY DEF Texts
<1>2. a \in Texts /\ Len(a) = at /\ b \in Texts /\ Len(b) = Len(text) - at
  BY <1>1, PartOf
<1>3. Insert(text, at, added) = a \o added \o b
  BY DEF Insert
<1> HIDE DEF a, b
<1>4. a \o added \in Texts /\ Len(a \o added) = at + Len(added)
  BY <1>2, Joined
<1>5. (a \o added) \o b \in Texts /\ Len((a \o added) \o b) = at + Len(added) + (Len(text) - at)
  BY <1>2, <1>4, Joined
<1> QED
  BY <1>1, <1>3, <1>5

LEMMA CutInTwo ==
    ASSUME NEW text \in Texts, NEW at \in 0..Len(text)
    PROVE  SubSeq(text, 1, at) \o SubSeq(text, at + 1, Len(text)) = text
<1> DEFINE n == Len(text)
           a == SubSeq(text, 1, at)
           b == SubSeq(text, at + 1, n)
           z == a \o b
<1>1. n \in Nat /\ at \in Nat /\ at <= n
  BY DEF Texts
<1>2. a \in Texts /\ Len(a) = at /\ \A j \in 1..at : a[j] = text[j]
  BY <1>1, PartOf
<1>3. b \in Texts /\ Len(b) = n - at /\ \A j \in 1..(n - at) : b[j] = text[j + at]
  <2>1. at + 1 \in 1..(Len(text) + 1) /\ n \in ((at + 1) - 1)..Len(text)
    BY <1>1
  <2> DEFINE i == at + 1
             c == n - at
  <2>2. n - i + 1 = c /\ (\A j \in 1..c : j + i - 1 = j + at) /\ b = SubSeq(text, i, n)
    BY <1>1
  <2>3. i \in 1..(Len(text) + 1) /\ n \in (i - 1)..Len(text)
    BY <2>1
  <2> HIDE DEF i, c, b
  <2>4. b \in Texts /\ Len(b) = c /\ \A j \in 1..c : b[j] = text[j + at]
    BY <2>2, <2>3, PartOf
  <2> QED
    BY <2>4 DEF c
<1> HIDE DEF a, b
<1>4. /\ z \in Texts /\ Len(z) = n
      /\ \A j \in 1..n : z[j] = IF j <= at THEN a[j] ELSE b[j - at]
  <2>1. Len(a) + Len(b) = n
    BY <1>1, <1>2, <1>3
  <2> QED
    BY <1>2, <1>3, <2>1, Joined
<1> HIDE DEF z
<1>5. ASSUME NEW j \in 1..n PROVE z[j] = text[j]
  <2>1. CASE j <= at
    BY <1>1, <1>2, <1>4, <2>1
  <2>2. CASE ~(j <= at)
    <3>1. j - at \in 1..(n - at) /\ (j - at) + at = j
      BY <1>1, <2>2
    <3> QED
      BY <1>3, <1>4, <2>2, <3>1
  <2> QED
    BY <2>1, <2>2
<1>6. z = text
  BY <1>1, <1>4, <1>5, SameText
<1> QED
  BY <1>6 DEF z, a, b

(* What was taken out at a place is there when it is put back.             *)
Without(text, k, l) == SubSeq(text, 1, k) \o SubSeq(text, k + l + 1, Len(text))

LEMMA PutBack ==
    ASSUME NEW text \in Texts, NEW l \in Nat, NEW k \in Nat, k + l <= Len(text)
    PROVE  /\ Without(text, k, l) \in Texts /\ Len(Without(text, k, l)) = Len(text) - l
           /\ Insert(Without(text, k, l), k, SubSeq(text, k + 1, k + l)) = text
<1> DEFINE n == Len(text)
           a == SubSeq(text, 1, k)
           b == SubSeq(text, k + l + 1, n)
           part == SubSeq(text, k + 1, k + l)
           rest == a \o b
           x == SubSeq(rest, 1, k)
           y == SubSeq(rest, k + 1, n - l)
           z == x \o part \o y
<1>1. n \in Nat
  BY DEF Texts
<1>2. a \in Texts /\ Len(a) = k /\ \A j \in 1..k : a[j] = text[j]
  BY <1>1, PartOf
<1>3. b \in Texts /\ Len(b) = n - (k + l) /\ \A j \in 1..(n - (k + l)) : b[j] = text[j + (k + l)]
  <2> DEFINE i == k + l + 1
             j == n
             size == n - (k + l)
  <2>1. /\ i \in 1..(Len(text) + 1) /\ j \in (i - 1)..Len(text) /\ j - i + 1 = size
        /\ \A m \in 1..size : m + i - 1 = m + k + l
    BY <1>1
  <2>2. b = SubSeq(text, i, j)
    OBVIOUS
  <2> HIDE DEF i, j, size, b
  <2>3. /\ b \in Texts /\ Len(b) = j - i + 1
        /\ \A m \in 1..(j - i + 1) : b[m] = text[m + i - 1]
    BY <2>1, <2>2, PartOf
  <2>4. b \in Texts /\ Len(b) = size /\ \A m \in 1..size : b[m] = text[m + k + l]
    BY <2>1, <2>3
  <2> QED
    BY <2>4 DEF size
<1>4. part \in Texts /\ Len(part) = l /\ \A j \in 1..l : part[j] = text[j + k]
  <2> DEFINE i == k + 1
             j == k + l
             size == l
  <2>1. /\ i \in 1..(Len(text) + 1) /\ j \in (i - 1)..Len(text) /\ j - i + 1 = size
        /\ \A m \in 1..size : m + i - 1 = m + k
    BY <1>1
  <2>2. part = SubSeq(text, i, j)
    OBVIOUS
  <2> HIDE DEF i, j, size, part
  <2>3. /\ part \in Texts /\ Len(part) = j - i + 1
        /\ \A m \in 1..(j - i + 1) : part[m] = text[m + i - 1]
    BY <2>1, <2>2, PartOf
  <2>4. part \in Texts /\ Len(part) = size /\ \A m \in 1..size : part[m] = text[m + k]
    BY <2>1, <2>3
  <2> QED
    BY <2>4 DEF size
<1> HIDE DEF a, b, part
<1>5. /\ rest \in Texts /\ Len(rest) = n - l
      /\ \A j \in 1..(n - l) : rest[j] = IF j <= k THEN a[j] ELSE b[j - k]
  <2>1. Len(a) + Len(b) = n - l
    BY <1>1, <1>2, <1>3
  <2> QED
    BY <1>2, <1>3, <2>1, Joined
<1> HIDE DEF rest
<1>6. x \in Texts /\ Len(x) = k /\ \A j \in 1..k : x[j] = rest[j]
  <2>1. 1 \in 1..(Len(rest) + 1) /\ k \in (1 - 1)..Len(rest)
    BY <1>1, <1>5
  <2> QED
    BY <1>1, <1>5, <2>1, PartOf
<1>7. y \in Texts /\ Len(y) = n - (k + l) /\ \A j \in 1..(n - (k + l)) : y[j] = rest[j + k]
  <2> DEFINE i == k + 1
             j == n - l
             size == n - (k + l)
  <2>1. /\ i \in 1..(Len(rest) + 1) /\ j \in (i - 1)..Len(rest) /\ j - i + 1 = size
        /\ \A m \in 1..size : m + i - 1 = m + k
    BY <1>1, <1>5
  <2>2. y = SubSeq(rest, i, j)
    OBVIOUS
  <2> HIDE DEF i, j, size, y
  <2>3. /\ y \in Texts /\ Len(y) = j - i + 1
        /\ \A m \in 1..(j - i + 1) : y[m] = rest[m + i - 1]
    BY <1>5, <2>1, <2>2, PartOf
  <2>4. y \in Texts /\ Len(y) = size /\ \A m \in 1..size : y[m] = rest[m + k]
    BY <2>1, <2>3
  <2> QED
    BY <2>4 DEF size
<1> HIDE DEF x, y
<1>8. /\ x \o part \in Texts /\ Len(x \o part) = k + l
      /\ \A j \in 1..(k + l) : (x \o part)[j] = IF j <= k THEN x[j] ELSE part[j - k]
  BY <1>4, <1>6, Joined
<1>9. /\ z \in Texts /\ Len(z) = n
      /\ \A j \in 1..n : z[j] = IF j <= k + l THEN (x \o part)[j] ELSE y[j - (k + l)]
  <2>1. \A p, q : p = k + l /\ q = n - (k + l) => p + q = n
    BY <1>1
  <2>2. Len(x \o part) + Len(y) = n
    BY <1>7, <1>8, <2>1
  <2> QED
    BY <1>7, <1>8, <2>2, Joined
<1> HIDE DEF z
<1>10. ASSUME NEW j \in 1..n PROVE z[j] = text[j]
  <2>1. CASE j <= k
    <3>1. j \in 1..k /\ j \in 1..(n - l) /\ j \in 1..(k + l)
      BY <1>1, <2>1
    <3> QED
      BY <1>2, <1>5, <1>6, <1>8, <1>9, <2>1, <3>1
  <2>2. CASE ~(j <= k) /\ j <= k + l
    <3>1. j - k \in 1..l /\ j \in 1..(k + l) /\ (j - k) + k = j
      BY <1>1, <2>2
    <3> QED
      BY <1>4, <1>8, <1>9, <2>2, <3>1
  <2>3. CASE ~(j <= k + l)
    <3> DEFINE i == j - (k + l)
    <3>1. i \in 1..(n - (k + l)) /\ i + k \in 1..(n - l) /\ ~(i + k <= k) /\ (i + k) - k = i
          /\ i + k + l = j
      BY <1>1, <2>3
    <3>2. z[j] = y[i] /\ y[i] = rest[i + k] /\ rest[i + k] = b[i] /\ b[i] = text[i + k + l]
      <4> HIDE DEF i
      <4>1. y[i] = rest[i + k] /\ rest[i + k] = b[i] /\ b[i] = text[i + k + l]
        BY <1>3, <1>5, <1>7, <3>1
      <4> QED
        BY <1>9, <2>3, <4>1 DEF i
    <3> QED
      BY <3>1, <3>2
  <2> QED
    BY <2>1, <2>2, <2>3
<1>11. z = text
  BY <1>1, <1>9, <1>10, SameText
<1>12. Insert(rest, k, part) = z
  BY <1>5 DEF Insert, x, y, z
<1> QED
  BY <1>5, <1>11, <1>12 DEF a, b, part, rest, Without

Occurs(part, text) ==
    \E k \in 0..(Len(text) - Len(part)) : SubSeq(text, k + 1, k + Len(part)) = part

LEMMA RemovedIsText ==
    ASSUME NEW text \in Texts, NEW part \in Texts
    PROVE  /\ Removed(text, part) \in Texts /\ Len(Removed(text, part)) <= Len(text)
           /\ Occurs(part, text) =>
                  \E i \in 0..Len(Removed(text, part)) : text = Insert(Removed(text, part), i, part)
<1> DEFINE n == Len(text)
           l == Len(part)
           found == {i \in 0..(n - l) : SubSeq(text, i + 1, i + l) = part}
           first == CHOOSE i \in found : \A j \in found : i <= j
           r == Removed(text, part)
           rest == Without(text, first, l)
<1>1. n \in Nat /\ l \in Nat /\ found \in SUBSET Nat
  BY DEF Texts
<1>2. r = IF found = {} THEN <<>> ELSE rest
  BY DEF Removed, Without
<1>3. CASE found = {}
  <2>1. r = <<>>
    BY <1>2, <1>3
  <2> HIDE DEF r
  <2>2. r \in Texts /\ Len(r) = 0
    BY <2>1 DEF Texts
  <2>3. ~Occurs(part, text)
    BY <1>3 DEF Occurs
  <2>4. Len(r) <= n
    BY <1>1, <2>2
  <2> QED
    BY <2>2, <2>3, <2>4 DEF r
<1>4. CASE found # {}
  <2>1. first \in found
    <3> HIDE DEF found
    <3>1. \E i \in found : \A j \in found : i <= j
      BY <1>1, <1>4, LeastOf
    <3> QED
      BY <3>1
  <2> HIDE DEF first
  <2>2. first \in Nat /\ first + l <= n /\ SubSeq(text, first + 1, first + l) = part
    BY <1>1, <2>1
  <2>3. rest \in Texts /\ Len(rest) = n - l /\ Insert(rest, first, part) = text
    <3>1. /\ rest \in Texts /\ Len(rest) = Len(text) - l
          /\ Insert(rest, first, SubSeq(text, first + 1, first + l)) = text
      BY <1>1, <2>2, PutBack
    <3> QED
      BY <2>2, <3>1
  <2>4. r = rest
    BY <1>2, <1>4
  <2>5. first \in 0..Len(rest)
    BY <1>1, <2>2, <2>3
  <2> HIDE DEF rest, r
  <2>6. r \in Texts /\ Len(r) <= n /\ \E i \in 0..Len(r) : text = Insert(r, i, part)
    BY <1>1, <2>3, <2>4, <2>5
  <2> QED
    BY <2>6 DEF r
<1> QED
  BY <1>3, <1>4

(* The input: its cursor and what is selected are places of its text.      *)
Drags == {"no", "yes", "lost"}
Inputs == [text : Texts, cursor : Int, selection : Int \X Int, active : BOOLEAN, lines : Rows,
           caret : Int, menu : BOOLEAN, drag : Drags, cancel : Int]
PlacedText(in) ==
    /\ in.cursor \in 0..Len(in.text)
    /\ in.selection[1] \in 0..Len(in.text) /\ in.selection[2] \in 0..Len(in.text)
    /\ in.cancel \in 0..ClickFrames
Proper(in) == in \in Inputs /\ PlacedText(in)
Selected(in) == in.selection[1] # in.selection[2]
LaidOutText(in) ==
    /\ in.lines = Append(LinesFrom(EmptyLines, in.text).done, LinesFrom(EmptyLines, in.text).cur)
    /\ in.caret + 1 \in DOMAIN in.lines

(* What no stage before the layout touches, and what selects nothing new.  *)
SameLines(r, in) == r.lines = in.lines /\ r.caret = in.caret
SelectsLess(r, in) == Selected(r) => r.selection = in.selection /\ r.text = in.text

LEMMA NothingSelected ==
    /\ NoSelection \in Int \X Int /\ NoSelection[1] = 0 /\ NoSelection[2] = 0
  BY DEF NoSelection

LEMMA TextFacts ==
    /\ NL \notin Chars /\ MaxText \in Nat /\ ClickFrames \in Nat /\ TabCount \in Nat
    /\ <<>> \in Texts /\ Len(<<>>) = 0
  BY TextInputAssumption DEF Texts

LEMMA SetStringKeeps ==
    ASSUME NEW in, Proper(in), NEW text \in Texts
    PROVE  /\ Proper(SetString(in, text)) /\ SetString(in, text).text = text
           /\ SetString(in, text).active = in.active /\ SetString(in, text).menu = in.menu
           /\ SameLines(SetString(in, text), in) /\ ~Selected(SetString(in, text))
<1> DEFINE drag == IF in.drag = "no" THEN "no" ELSE "lost"
           cursor == IF in.cursor > Len(text) THEN Len(text) ELSE in.cursor
           r == SetString(in, text)
<1>1. drag \in Drags /\ cursor \in 0..Len(text)
  BY DEF Drags, Proper, PlacedText, Texts
<1>2. r = [in EXCEPT !.text = text, !.selection = NoSelection, !.drag = drag, !.cursor = cursor]
  BY DEF SetString
<1>3. Len(text) \in Nat
  BY DEF Texts
<1> HIDE DEF drag, cursor, r
<1>4. /\ r \in Inputs /\ r.text = text /\ r.selection = NoSelection /\ r.cursor = cursor
      /\ r.active = in.active /\ r.menu = in.menu /\ r.cancel = in.cancel
      /\ r.lines = in.lines /\ r.caret = in.caret
  <2>1. cursor \in Int /\ NoSelection \in Int \X Int /\ drag \in Drags
    BY <1>1, <1>3, NothingSelected
  <2>2. in \in Inputs
    BY DEF Proper
  <2>3. r \in Inputs
    BY <1>2, <2>1, <2>2 DEF Inputs
  <2> QED
    BY <1>2, <2>2, <2>3 DEF Inputs
<1>5. PlacedText(r)
  BY <1>1, <1>3, <1>4, NothingSelected DEF PlacedText, Proper
<1> QED
  BY <1>4, <1>5, NothingSelected DEF Proper, SameLines, Selected, r

LEMMA SetCursorKeeps ==
    ASSUME NEW in, Proper(in), NEW at \in Nat
    PROVE  /\ Proper(SetCursor(in, at)) /\ SetCursor(in, at).text = in.text
           /\ SetCursor(in, at).active = in.active /\ SetCursor(in, at).menu = in.menu
           /\ SameLines(SetCursor(in, at), in)
           /\ SetCursor(in, at).selection = in.selection /\ SetCursor(in, at).drag = in.drag
<1> DEFINE cursor == Within(in, at)
           r == SetCursor(in, at)
<1>1. Len(in.text) \in Nat
  BY DEF Proper, Inputs, Texts
<1>2. cursor \in 0..Len(in.text)
  BY <1>1 DEF Within
<1>3. r = [in EXCEPT !.cursor = cursor]
  BY DEF SetCursor
<1> HIDE DEF cursor, r
<1>4. /\ r \in Inputs /\ r.text = in.text /\ r.selection = in.selection /\ r.cursor = cursor
      /\ r.active = in.active /\ r.menu = in.menu /\ r.cancel = in.cancel /\ r.drag = in.drag
      /\ r.lines = in.lines /\ r.caret = in.caret
  BY <1>1, <1>2, <1>3 DEF Proper, Inputs
<1> QED
  BY <1>2, <1>4 DEF Proper, PlacedText, SameLines, r

LEMMA ActivatedKeeps ==
    ASSUME NEW in, Proper(in), NEW flag \in BOOLEAN
    PROVE  /\ Proper(Activated(in, flag)) /\ Activated(in, flag).text = in.text
           /\ Activated(in, flag).active = flag /\ Activated(in, flag).menu = in.menu
           /\ SameLines(Activated(in, flag), in)
           /\ Activated(in, flag).selection = in.selection
<1> DEFINE r == Activated(in, flag)
<1>1. r = [in EXCEPT !.active = flag]
  BY DEF Activated
<1> HIDE DEF r
<1>2. /\ r \in Inputs /\ r.text = in.text /\ r.selection = in.selection /\ r.cursor = in.cursor
      /\ r.active = flag /\ r.menu = in.menu /\ r.cancel = in.cancel
      /\ r.lines = in.lines /\ r.caret = in.caret
  BY <1>1 DEF Proper, Inputs
<1> QED
  BY <1>2 DEF Proper, PlacedText, SameLines, r

LEMMA UsedKeeps ==
    ASSUME NEW in, Proper(in), NEW menu \in BOOLEAN
    PROVE  /\ Proper(Used(in)) /\ Used(in).text = in.text /\ Used(in).active = in.active
           /\ SameLines(Used(in), in) /\ Used(in).selection = in.selection
           /\ Proper([in EXCEPT !.menu = menu]) /\ [in EXCEPT !.menu = menu].text = in.text
           /\ [in EXCEPT !.menu = menu].active = in.active
           /\ SameLines([in EXCEPT !.menu = menu], in)
           /\ [in EXCEPT !.menu = menu].selection = in.selection
<1> DEFINE r == Used(in)
           q == [in EXCEPT !.menu = menu]
<1>1. r = [in EXCEPT !.cancel = ClickFrames]
  BY DEF Used
<1> HIDE DEF r
<1>2. /\ r \in Inputs /\ r.text = in.text /\ r.selection = in.selection /\ r.cursor = in.cursor
      /\ r.active = in.active /\ r.cancel = ClickFrames
      /\ r.lines = in.lines /\ r.caret = in.caret
  BY <1>1, TextFacts DEF Proper, Inputs
<1>3. Proper(r) /\ SameLines(r, in)
  BY <1>2, TextFacts DEF Proper, PlacedText, SameLines
<1>4. /\ q \in Inputs /\ q.text = in.text /\ q.selection = in.selection /\ q.cursor = in.cursor
      /\ q.active = in.active /\ q.cancel = in.cancel
      /\ q.lines = in.lines /\ q.caret = in.caret
  BY DEF Proper, Inputs
<1> HIDE DEF q
<1>5. Proper(q) /\ SameLines(q, in)
  BY <1>4 DEF Proper, PlacedText, SameLines
<1> QED
  BY <1>2, <1>3, <1>4, <1>5 DEF r, q

LEMMA EnterKeeps ==
    ASSUME NEW in, Proper(in), NEW key
    PROVE  /\ Proper(EnterStage(in, key)) /\ SameLines(EnterStage(in, key), in)
           /\ EnterStage(in, key).menu = in.menu
           /\ SelectsLess(EnterStage(in, key), in)
           /\ in.active => EnterStage(in, key).active
           /\ key = "none" => EnterStage(in, key) = in
           /\ key = "return" /\ in.active => EnterStage(in, key).text = <<>>
           /\ key = "return" /\ ~in.active => EnterStage(in, key) = in
           /\ key # "return" => EnterStage(in, key).text = in.text
<1> DEFINE r == EnterStage(in, key)
           on == TRUE
           cleared == SetString(in, <<>>)
           empty == <<>>
<1>1. on \in BOOLEAN /\ (in.text # <<>>) \in BOOLEAN
  OBVIOUS
<1>2. /\ Proper(cleared) /\ cleared.text = empty /\ cleared.active = in.active
      /\ cleared.menu = in.menu /\ SameLines(cleared, in) /\ ~Selected(cleared)
  BY SetStringKeeps, TextFacts
<1>3. CASE (~in.active /\ key = "paste") \/ key = "shift_return"
  <2>1. r = Activated(in, on)
    BY <1>3 DEF EnterStage
  <2>2. on = TRUE
    OBVIOUS
  <2> HIDE DEF r, on
  <2>3. /\ Proper(r) /\ r.text = in.text /\ r.active = on /\ r.menu = in.menu
        /\ SameLines(r, in) /\ r.selection = in.selection
    BY <1>1, <2>1, ActivatedKeeps
  <2> QED
    BY <1>3, <2>2, <2>3 DEF SelectsLess, r
<1>4. CASE ~((~in.active /\ key = "paste") \/ key = "shift_return") /\ key = "return" /\ in.active
  <2> DEFINE flag == in.text # <<>>
             entered == Activated(cleared, flag)
  <2>1. r = Activated(entered, on) /\ on = TRUE
    BY <1>4 DEF EnterStage, OnEnter
  <2>2. flag \in BOOLEAN
    OBVIOUS
  <2> HIDE DEF r, on, flag, cleared, entered
  <2>3. /\ Proper(entered) /\ entered.text = empty /\ entered.menu = in.menu
        /\ SameLines(entered, cleared) /\ entered.selection = cleared.selection
    BY <1>2, <2>2, ActivatedKeeps DEF entered
  <2>4. /\ Proper(r) /\ r.text = empty /\ r.active = on /\ r.menu = in.menu
        /\ SameLines(r, entered) /\ r.selection = entered.selection
    BY <1>1, <2>1, <2>3, ActivatedKeeps
  <2>5. SameLines(r, in) /\ ~Selected(r)
    BY <1>2, <2>3, <2>4 DEF SameLines, Selected
  <2> QED
    BY <1>4, <2>1, <2>4, <2>5 DEF SelectsLess, r
<1>5. CASE ~((~in.active /\ key = "paste") \/ key = "shift_return") /\ ~(key = "return" /\ in.active)
  <2>1. r = in
    BY <1>5 DEF EnterStage
  <2> HIDE DEF r
  <2>2. SameLines(r, in) /\ SelectsLess(r, in)
    BY <2>1 DEF SameLines, SelectsLess
  <2> QED
    BY <1>5, <2>1, <2>2 DEF r
<1> QED
  BY <1>3, <1>4, <1>5

LEMMA NewLineKeeps ==
    ASSUME NEW in, Proper(in), NEW key
    PROVE  /\ Proper(NewLineStage(in, key)) /\ NewLineStage(in, key).active = in.active
           /\ SameLines(NewLineStage(in, key), in)
           /\ key # "shift_return" => NewLineStage(in, key) = in
<1>1. CASE key # "shift_return"
  BY <1>1 DEF NewLineStage, SameLines
<1>2. CASE key = "shift_return"
  <2> DEFINE line == <<NL>>
             text == Insert(in.text, in.cursor, line)
             next == SetString(in, text)
             r == NewLineStage(in, key)
             at == in.cursor + 1
  <2>1. line \in Texts /\ in.text \in Texts /\ in.cursor \in 0..Len(in.text) /\ at \in Nat
    <3>1. Len(in.text) \in Nat
      BY DEF Proper, Inputs, Texts
    <3> QED
      BY <3>1 DEF Texts, Proper, PlacedText, Inputs
  <2> HIDE DEF line, at
  <2>2. text \in Texts
    BY <2>1, InsertIsText
  <2> HIDE DEF text
  <2>3. Proper(next) /\ next.active = in.active /\ SameLines(next, in)
    BY <2>2, SetStringKeeps
  <2>4. r = SetCursor(next, at)
    BY <1>2 DEF NewLineStage, line, text, at
  <2> HIDE DEF next, r
  <2>5. Proper(r) /\ r.active = in.active /\ SameLines(r, next)
    BY <2>1, <2>3, <2>4, SetCursorKeeps
  <2> QED
    BY <1>2, <2>3, <2>5 DEF SameLines, r
<1> QED
  BY <1>1, <1>2

LEMMA SortedPair ==
    ASSUME NEW p \in Int \X Int
    PROVE  /\ Sorted(p) \in Int \X Int /\ Sorted(p)[1] <= Sorted(p)[2]
           /\ Sorted(p)[1] \in {p[1], p[2]} /\ Sorted(p)[2] \in {p[1], p[2]}
           /\ (Sorted(p)[1] = Sorted(p)[2]) <=> (p[1] = p[2])
  BY DEF Sorted

(* What a drag may select, and what of it a cut takes.                     *)
LEMMA SelectingIsText ==
    ASSUME NEW in, Proper(in), Selected(in) => LaidOutText(in), NEW taken \in SelectingText(in)
    PROVE  taken \in Texts /\ (Len(in.lines) = 1 => Occurs(taken, in.text))
<1> DEFINE s == Sorted(in.selection)
           n == Len(in.text)
<1>1. in.text \in Texts /\ n \in Nat /\ in.selection \in Int \X Int /\ in.lines \in Rows
  BY DEF Proper, Inputs, Texts
<1>2. /\ s[1] \in 0..n /\ s[2] \in 0..n /\ s[1] <= s[2]
      /\ (s[1] = s[2]) <=> ~Selected(in)
  BY <1>1, SortedPair DEF Proper, PlacedText, Selected
<1>3. CASE s[1] = s[2]
  <2> DEFINE none == <<>>
  <2>1. taken = none
    BY <1>3 DEF SelectingText
  <2>2. none \in Texts /\ Len(none) = 0
    BY TextFacts
  <2>3. SubSeq(in.text, 0 + 1, 0 + Len(none)) = none
    BY <1>1, <2>2 DEF Texts
  <2> HIDE DEF none
  <2> QED
    BY <1>1, <2>1, <2>2, <2>3 DEF Occurs
<1>4. CASE s[1] # s[2]
  <2> DEFINE part == SubSeq(in.text, s[1] + 1, s[2])
  <2>1. s[1] + 1 \in 1..(n + 1) /\ s[2] \in ((s[1] + 1) - 1)..n
    BY <1>1, <1>2
  <2>2. part \in Texts /\ Len(part) = s[2] - s[1]
    <3>1. part \in Texts /\ Len(part) = s[2] - (s[1] + 1) + 1
      BY <1>1, <2>1, PartOf
    <3> QED
      BY <1>1, <1>2, <3>1
  <2>3. Occurs(part, in.text)
    <3>1. s[1] \in 0..(n - Len(part)) /\ s[1] + Len(part) = s[2]
      BY <1>1, <1>2, <2>2
    <3> QED
      BY <3>1 DEF Occurs
  <2>4. CASE Len(in.lines) = 1
    <3> DEFINE page == LinesFrom(EmptyLines, in.text)
    <3>1. in.lines = Append(page.done, page.cur)
      BY <1>2, <1>4 DEF LaidOutText
    <3>2. page \in Page
      BY <1>1, LinesAreLong, EmptyIsPage
    <3>3. page.done \in Rows /\ page.cur \in Texts
      BY <3>2 DEF Page
    <3>4. page.done = <<>>
      <4> HIDE DEF page
      <4>1. Len(page.done) = 0
        BY <2>4, <3>1, <3>3 DEF Rows
      <4> QED
        BY <3>3, <4>1 DEF Rows
    <3>5. page.cur = in.text
      BY <1>1, <3>4, OneLine
    <3> HIDE DEF page
    <3>6. in.lines[1] = in.text
      BY <3>1, <3>3, <3>4, <3>5 DEF Rows
    <3>7. taken = part
      BY <1>4, <2>4, <3>6 DEF SelectingText
    <3> QED
      BY <2>2, <2>3, <3>7
  <2>5. CASE Len(in.lines) # 1
    <3>1. taken \in {part} \cup {<<c>> : c \in Chars \cup {NL}}
      BY <1>4, <2>5 DEF SelectingText
    <3>2. \A c \in Chars \cup {NL} : <<c>> \in Texts
      BY DEF Texts
    <3> QED
      BY <2>2, <2>5, <3>1, <3>2
  <2> QED
    BY <2>4, <2>5
<1> QED
  BY <1>3, <1>4

LEMMA MenuKeeps ==
    ASSUME NEW in, Proper(in), NEW mouse, NEW taken \in Texts, clipboard \in Texts
    PROVE  /\ Proper(MenuStage(in, mouse, taken)) /\ MenuStage(in, mouse, taken).active = in.active
           /\ SameLines(MenuStage(in, mouse, taken), in)
           /\ ~(in.menu /\ mouse.button = "press") => MenuStage(in, mouse, taken) = in
           /\ mouse.label \notin {"cut", "paste"} => MenuStage(in, mouse, taken).text = in.text
           /\ in.menu /\ mouse.button = "press" /\ mouse.label = "cut" =>
                  MenuStage(in, mouse, taken).text = Removed(in.text, taken)
<1>1. CASE ~in.menu \/ mouse.button # "press"
  BY <1>1 DEF MenuStage, SameLines
<1>2. CASE in.menu /\ mouse.button = "press"
  <2> DEFINE cut == SetString(in, Removed(in.text, taken))
             paste == SetString(in, Insert(in.text, in.cursor, clipboard))
             used == CASE mouse.label = "cut" -> Used(cut)
                       [] mouse.label = "copy" -> Used(in)
                       [] mouse.label = "paste" -> Used(paste)
                       [] OTHER -> in
             off == FALSE
             r == MenuStage(in, mouse, taken)
  <2>1. in.text \in Texts /\ in.cursor \in 0..Len(in.text)
    BY DEF Proper, PlacedText, Inputs
  <2>2. Removed(in.text, taken) \in Texts /\ Insert(in.text, in.cursor, clipboard) \in Texts
    BY <2>1, RemovedIsText, InsertIsText
  <2>3. /\ Proper(cut) /\ cut.text = Removed(in.text, taken) /\ cut.active = in.active
        /\ SameLines(cut, in)
        /\ Proper(paste) /\ paste.active = in.active /\ SameLines(paste, in)
    BY <2>2, SetStringKeeps
  <2>4. r = [used EXCEPT !.menu = off] /\ off \in BOOLEAN
    BY <1>2 DEF MenuStage, CutLabel, CopyLabel, PasteLabel
  <2> HIDE DEF cut, paste, off, r
  <2>5. /\ Proper(used) /\ used.active = in.active /\ SameLines(used, in)
        /\ mouse.label \notin {"cut", "paste"} => used.text = in.text
        /\ mouse.label = "cut" => used.text = Removed(in.text, taken)
    <3>1. CASE mouse.label = "cut"
      <4>1. used = Used(cut)
        BY <3>1
      <4> HIDE DEF used
      <4>2. Proper(used) /\ used.text = cut.text /\ used.active = cut.active /\ SameLines(used, cut)
        BY <2>3, <2>4, <4>1, UsedKeeps
      <4> QED
        BY <2>3, <3>1, <4>2 DEF SameLines
    <3>2. CASE mouse.label = "copy"
      <4>1. used = Used(in)
        BY <3>2
      <4> HIDE DEF used
      <4>2. Proper(used) /\ used.text = in.text /\ used.active = in.active /\ SameLines(used, in)
        BY <2>4, <4>1, UsedKeeps
      <4> QED
        BY <3>2, <4>2
    <3>3. CASE mouse.label = "paste"
      <4>1. used = Used(paste)
        BY <3>3
      <4> HIDE DEF used
      <4>2. Proper(used) /\ used.active = paste.active /\ SameLines(used, paste)
        BY <2>3, <2>4, <4>1, UsedKeeps
      <4> QED
        BY <2>3, <3>3, <4>2 DEF SameLines
    <3>4. CASE mouse.label \notin {"cut", "copy", "paste"}
      <4>1. used = in
        BY <3>4
      <4> HIDE DEF used
      <4> QED
        BY <3>4, <4>1 DEF SameLines
    <3> QED
      BY <3>1, <3>2, <3>3, <3>4
  <2> HIDE DEF used
  <2>6. Proper(r) /\ r.text = used.text /\ r.active = used.active /\ SameLines(r, used)
    BY <2>4, <2>5, UsedKeeps
  <2> QED
    BY <1>2, <2>5, <2>6 DEF SameLines, r
<1> QED
  BY <1>1, <1>2

LEMMA DraggedKeeps ==
    ASSUME NEW in, Proper(in), NEW at \in 0..Len(in.text)
    PROVE  /\ Proper(Dragged(in, at)) /\ Dragged(in, at).text = in.text
           /\ Dragged(in, at).active = in.active /\ SameLines(Dragged(in, at), in)
<1>1. CASE in.drag = "lost"
  BY <1>1 DEF Dragged, SameLines
<1>2. CASE in.drag # "lost"
  <2> DEFINE pulled == SetCursor(in, at)
             from == IF in.drag = "yes" THEN pulled.selection[1] ELSE in.cursor
             pair == <<from, at>>
             yes == "yes"
             r == Dragged(in, at)
  <2>0. Len(in.text) \in Nat /\ at \in Nat
    BY DEF Proper, Inputs, Texts
  <2>1. /\ Proper(pulled) /\ pulled.text = in.text /\ pulled.active = in.active
        /\ SameLines(pulled, in) /\ pulled.selection = in.selection
    BY <2>0, SetCursorKeeps
  <2>2. from \in 0..Len(in.text)
    BY <2>1 DEF Proper, PlacedText
  <2>3. r = [pulled EXCEPT !.drag = yes, !.selection = pair] /\ yes \in Drags
    BY <1>2 DEF Dragged, Drags
  <2> HIDE DEF pulled, from, yes, r
  <2>4. pair \in Int \X Int /\ pair[1] = from /\ pair[2] = at
    BY <2>0, <2>2
  <2> HIDE DEF pair
  <2>5. pulled \in Inputs
    BY <2>1 DEF Proper
  <2>6. r \in Inputs
    BY <2>3, <2>4, <2>5 DEF Inputs
  <2>7. /\ r.text = pulled.text /\ r.active = pulled.active /\ r.lines = pulled.lines
        /\ r.caret = pulled.caret /\ r.selection = pair /\ r.cursor = pulled.cursor
        /\ r.cancel = pulled.cancel
    BY <2>3, <2>5 DEF Inputs
  <2>8. PlacedText(r)
    BY <2>0, <2>1, <2>2, <2>4, <2>7 DEF PlacedText, Proper
  <2> QED
    BY <2>1, <2>6, <2>7, <2>8 DEF Proper, SameLines, r
<1> QED
  BY <1>1, <1>2

LEMMA ReleasedKeeps ==
    ASSUME NEW in, Proper(in)
    PROVE  /\ Proper(Released(in)) /\ Released(in).text = in.text
           /\ Released(in).active = in.active /\ SameLines(Released(in), in)
<1> DEFINE p == Sorted(in.selection)
           at == p[2]
           pulled == SetCursor(in, at)
           pair == IF p[1] = p[2] THEN NoSelection ELSE p
           no == "no"
           r == Released(in)
<1>0. Len(in.text) \in Nat /\ in.selection \in Int \X Int
  BY DEF Proper, Inputs, Texts
<1>1. p \in Int \X Int /\ p[1] \in 0..Len(in.text) /\ p[2] \in 0..Len(in.text)
  BY <1>0, SortedPair DEF Proper, PlacedText
<1>2. at \in Nat
  BY <1>0, <1>1
<1>3. r = [pulled EXCEPT !.drag = no, !.selection = pair] /\ no \in Drags
  BY DEF Released, Drags
<1> HIDE DEF p
<1>4. /\ pair \in Int \X Int /\ pair[1] \in 0..Len(in.text) /\ pair[2] \in 0..Len(in.text)
  BY <1>0, <1>1, NothingSelected
<1> HIDE DEF pair, at
<1>5. /\ Proper(pulled) /\ pulled.text = in.text /\ pulled.active = in.active
      /\ SameLines(pulled, in)
  BY <1>2, SetCursorKeeps
<1> HIDE DEF pulled, no, r
<1>6. pulled \in Inputs
  BY <1>5 DEF Proper
<1>7. r \in Inputs
  BY <1>3, <1>4, <1>6 DEF Inputs
<1>8. /\ r.text = pulled.text /\ r.active = pulled.active /\ r.lines = pulled.lines
      /\ r.caret = pulled.caret /\ r.selection = pair /\ r.cursor = pulled.cursor
      /\ r.cancel = pulled.cancel
  BY <1>3, <1>6 DEF Inputs
<1>9. PlacedText(r)
  BY <1>4, <1>5, <1>8 DEF PlacedText, Proper
<1> QED
  BY <1>5, <1>7, <1>8, <1>9 DEF Proper, SameLines, r

LEMMA MouseKeeps ==
    ASSUME NEW in, Proper(in), NEW mouse, mouse.at \in Nat,
           mouse.button = "held" => mouse.at \in 0..Len(in.text)
    PROVE  /\ Proper(MouseStage(in, mouse)) /\ MouseStage(in, mouse).text = in.text
           /\ MouseStage(in, mouse).active = in.active
           /\ mouse.button = "none" => MouseStage(in, mouse) = in
<1> DEFINE r == MouseStage(in, mouse)
           on == TRUE
           menu == [in EXCEPT !.menu = on]
           at == mouse.at
<1>1. \/ r = in
      \/ r = SetCursor(in, at) /\ mouse.button # "none"
      \/ r = Dragged(in, at) /\ mouse.button = "held"
      \/ r = Released(in) /\ mouse.button # "none"
      \/ r = menu /\ mouse.button # "none"
  BY DEF MouseStage
<1>2. on \in BOOLEAN
  OBVIOUS
<1> HIDE DEF on
<1>3. Proper(menu) /\ menu.text = in.text /\ menu.active = in.active
  BY <1>2, UsedKeeps
<1> HIDE DEF menu, r, at
<1>4. CASE r = in
  BY <1>4 DEF r
<1>5. CASE r = SetCursor(in, at) /\ mouse.button # "none"
  <2>1. at \in Nat
    BY DEF at
  <2>2. Proper(r) /\ r.text = in.text /\ r.active = in.active
    BY <1>5, <2>1, SetCursorKeeps
  <2> QED
    BY <1>5, <2>2 DEF r
<1>6. CASE r = Dragged(in, at) /\ mouse.button = "held"
  <2>1. at \in 0..Len(in.text)
    BY <1>6 DEF at
  <2>2. Proper(r) /\ r.text = in.text /\ r.active = in.active
    BY <1>6, <2>1, DraggedKeeps
  <2> QED
    BY <1>6, <2>2 DEF r
<1>7. CASE r = Released(in) /\ mouse.button # "none"
  BY <1>7, ReleasedKeeps DEF r
<1>8. CASE r = menu /\ mouse.button # "none"
  BY <1>3, <1>8 DEF r
<1> QED
  BY <1>1, <1>4, <1>5, <1>6, <1>7, <1>8

LEMMA LayOutKeeps ==
    ASSUME NEW in, Proper(in)
    PROVE  /\ Proper(LayOut(in)) /\ LayOut(in).text = in.text /\ LayOut(in).active = in.active
           /\ LaidOutText(LayOut(in))
<1> DEFINE before == SubSeq(in.text, 1, in.cursor)
           behind == SubSeq(in.text, in.cursor + 1, Len(in.text))
           front == LinesFrom(EmptyLines, before)
           all == LinesFrom(front, behind)
           rows == Append(all.done, all.cur)
           caret == Len(front.done)
           r == LayOut(in)
<1>1. in.text \in Texts /\ Len(in.text) \in Nat /\ in.cursor \in 0..Len(in.text) /\ in \in Inputs
  BY DEF Proper, Inputs, PlacedText, Texts
<1>2. before \in Texts /\ behind \in Texts
  <2>1. /\ 1 \in 1..(Len(in.text) + 1) /\ in.cursor \in (1 - 1)..Len(in.text)
        /\ in.cursor + 1 \in 1..(Len(in.text) + 1)
        /\ Len(in.text) \in ((in.cursor + 1) - 1)..Len(in.text)
    BY <1>1
  <2> QED
    BY <1>1, <2>1, PartOf
<1>3. before \o behind = in.text
  BY <1>1, CutInTwo
<1>4. r = [in EXCEPT !.lines = rows, !.caret = caret]
  BY DEF LayOut
<1> HIDE DEF before, behind
<1>5. front \in Page
  BY <1>2, EmptyIsPage, LinesAreLong
<1>6. all = LinesFrom(EmptyLines, in.text)
  BY <1>2, <1>3, EmptyIsPage, LinesGoOn
<1> HIDE DEF front
<1>7. all \in Page /\ Len(all.done) >= Len(front.done)
  BY <1>2, <1>5, LinesAreLong
<1> HIDE DEF all
<1>8. front.done \in Rows /\ all.done \in Rows /\ all.cur \in Texts
  BY <1>5, <1>7 DEF Page
<1>9. rows \in Rows /\ caret \in Nat /\ caret + 1 \in DOMAIN rows
  BY <1>7, <1>8 DEF Rows
<1> HIDE DEF rows, caret, r
<1>10. caret \in Int
  BY <1>9
<1>11. r \in Inputs
  BY <1>1, <1>4, <1>9, <1>10 DEF Inputs
<1>12. /\ r.text = in.text /\ r.active = in.active /\ r.lines = rows /\ r.caret = caret
       /\ r.selection = in.selection /\ r.cursor = in.cursor /\ r.cancel = in.cancel
  BY <1>1, <1>4 DEF Inputs
<1>13. PlacedText(r)
  BY <1>12 DEF PlacedText, Proper
<1>14. LaidOutText(r)
  <2>1. r.lines = Append(all.done, all.cur)
    BY <1>12 DEF rows
  <2> QED
    BY <1>6, <1>9, <1>12, <2>1 DEF LaidOutText
<1> QED
  BY <1>11, <1>12, <1>13, <1>14 DEF Proper, r

LEMMA KeyKeeps ==
    ASSUME NEW in, Proper(in), NEW key, NEW empty
    PROVE  /\ Proper(KeyStage(in, key, empty)) /\ KeyStage(in, key, empty).text = in.text
           /\ SameLines(KeyStage(in, key, empty), in)
           /\ KeyStage(in, key, empty).selection = in.selection
           /\ key = "none" => KeyStage(in, key, empty) = in
           /\ key = "return" =>
                  KeyStage(in, key, empty).active =
                      (~in.active \/ in.lines[1] # <<>> \/ ~empty)
<1> DEFINE r == KeyStage(in, key, empty)
           on == TRUE
           off == FALSE
           leaves == in.active /\ in.lines[1] = <<>> /\ (key = "esc" \/ (key = "return" /\ empty))
           enters == ~in.active /\ key \in {"return", "paste"}
<1>1. on = TRUE /\ off = FALSE /\ on \in BOOLEAN /\ off \in BOOLEAN
  OBVIOUS
<1>2. in.active \in BOOLEAN
  BY DEF Proper, Inputs
<1>3. CASE leaves
  <2>1. r = Activated(in, off)
    BY <1>3 DEF KeyStage
  <2> HIDE DEF r, on, off
  <2>2. /\ Proper(r) /\ r.text = in.text /\ SameLines(r, in) /\ r.selection = in.selection
        /\ r.active = off
    BY <1>1, <2>1, ActivatedKeeps
  <2> QED
    BY <1>1, <1>3, <2>2 DEF r
<1>4. CASE ~leaves /\ enters
  <2>1. r = Activated(in, on)
    BY <1>4 DEF KeyStage
  <2> HIDE DEF r, on, off
  <2>2. /\ Proper(r) /\ r.text = in.text /\ SameLines(r, in) /\ r.selection = in.selection
        /\ r.active = on
    BY <1>1, <2>1, ActivatedKeeps
  <2> QED
    BY <1>1, <1>4, <2>2 DEF r
<1>5. CASE ~leaves /\ ~enters
  <2>1. r = in
    BY <1>5 DEF KeyStage
  <2> HIDE DEF r, on, off
  <2>2. key = "return" => in.active /\ (in.lines[1] # <<>> \/ ~empty)
    BY <1>2, <1>5
  <2> QED
    BY <1>2, <2>1, <2>2 DEF r, SameLines
<1> QED
  BY <1>3, <1>4, <1>5

LEMMA SwitchKeeps ==
    ASSUME NEW in, Proper(in), NEW index \in TextTabs, drafts \in [TextTabs -> Texts]
    PROVE  /\ Proper(SwitchTab(in, index)) /\ SwitchTab(in, index).active = in.active
           /\ SameLines(SwitchTab(in, index), in)
           /\ index = tab => SwitchTab(in, index) = in
           /\ index # tab => /\ SwitchTab(in, index).text = drafts[index]
                             /\ ~Selected(SwitchTab(in, index))
<1>1. CASE index = tab
  BY <1>1 DEF SwitchTab, SameLines
<1>2. CASE index # tab
  <2> DEFINE draft == drafts[index]
  <2>1. draft \in Texts
    OBVIOUS
  <2>2. SwitchTab(in, index) = SetString(in, draft)
    BY <1>2 DEF SwitchTab
  <2> HIDE DEF draft
  <2>3. /\ Proper(SetString(in, draft)) /\ SetString(in, draft).text = draft
        /\ SetString(in, draft).active = in.active /\ SameLines(SetString(in, draft), in)
        /\ ~Selected(SetString(in, draft))
    BY <2>1, SetStringKeeps
  <2> QED
    BY <1>2, <2>2, <2>3 DEF draft
<1> QED
  BY <1>1, <1>2

LEMMA BaseKeeps ==
    ASSUME NEW in, Proper(in), NEW mouse, NEW took
    PROVE  /\ Proper(BaseStage(in, mouse, took)) /\ BaseStage(in, mouse, took).text = in.text
           /\ SameLines(BaseStage(in, mouse, took), in)
           /\ BaseStage(in, mouse, took).selection = in.selection
           /\ mouse.button = "none" => BaseStage(in, mouse, took) = in
<1>1. CASE took \/ mouse.button \notin {"press", "held"}
  BY <1>1 DEF BaseStage, SameLines
<1>2. CASE ~took /\ mouse.button \in {"press", "held"}
  <2> DEFINE flag == mouse.over # "outside"
  <2>1. BaseStage(in, mouse, took) = Activated(in, flag) /\ mouse.button # "none"
    BY <1>2 DEF BaseStage
  <2>2. flag \in BOOLEAN
    OBVIOUS
  <2> HIDE DEF flag
  <2> QED
    BY <2>1, <2>2, ActivatedKeeps
<1> QED
  BY <1>1, <1>2

(* What the mouse may do in a frame.                                       *)
Pointers == [button : {"none", "press", "held", "release", "right"},
             over : {"outside", "input", "tab"}, at : Nat,
             label : {"none", "cut", "copy", "paste"}, tab : TextTabs]
Pointing(mouse, key) ==
    /\ mouse \in Pointers /\ mouse.at \in 0..Len(input.text)
    /\ mouse.over = "tab" => mouse.label = "none"
    /\ key # "none" => mouse.button = "none"

TextInv ==
    /\ Proper(input) /\ Len(input.text) <= MaxText
    /\ tab \in TextTabs /\ drafts \in [TextTabs -> Texts] /\ clipboard \in Texts
    /\ frame \in [done : {"none", "frame", "return", "cut"}, passed : BOOLEAN]
    /\ frame.done # "none" => LaidOutText(input)
    /\ Selected(input) => frame.done # "none"

(* What a frame may not do.                                                *)
FrameKeeps ==
    /\ frame'.done = "return" =>
          /\ input'.active = (~input.active \/ input.text # <<>>)
          /\ input.active => input'.text = <<>>
    /\ frame'.passed => ~input.active /\ ~input'.active
    /\ (frame'.done = "cut" /\ Len(input.lines) = 1) =>
          \E i \in 0..Len(input'.text) : input.text = Insert(input'.text, i, clipboard')
    /\ tab' # tab => input'.text = drafts[tab'] /\ drafts'[tab] = input.text
    /\ \A t \in TextTabs \ {tab, tab'} : drafts'[t] = drafts[t]

(* The mouse as the input sees it.                                         *)
MouseSeen(mouse) ==
    IF input.cancel = 0 THEN mouse
    ELSE [mouse EXCEPT !.button = IF @ \in {"held", "release"} THEN "release" ELSE "none"]

LEMMA SeenPoints ==
    ASSUME NEW key, NEW mouse0, Pointing(mouse0, key)
    PROVE  Pointing(MouseSeen(mouse0), key)
<1> DEFINE button == IF mouse0.button \in {"held", "release"} THEN "release" ELSE "none"
           mouse == [mouse0 EXCEPT !.button = button]
<1>1. button \in {"none", "release"} /\ (key # "none" => button = "none")
  BY DEF Pointing
<1>2. mouse0 \in Pointers
  BY DEF Pointing
<1>3. [mouse0 EXCEPT !.button = IF @ \in {"held", "release"} THEN "release" ELSE "none"] = mouse
  BY <1>2 DEF Pointers
<1> HIDE DEF button
<1>4. button \in {"none", "press", "held", "release", "right"}
  BY <1>1
<1>5. /\ mouse \in Pointers /\ mouse.at = mouse0.at /\ mouse.over = mouse0.over
      /\ mouse.label = mouse0.label /\ mouse.button = button
  BY <1>2, <1>4 DEF Pointers
<1> HIDE DEF mouse
<1>6. Pointing(mouse, key)
  BY <1>1, <1>5 DEF Pointing
<1> QED
  BY <1>3, <1>6 DEF MouseSeen

LEMMA FrameStep ==
    ASSUME TextInv, NEW key \in Keys \cup {"none"}, NEW mouse0, Pointing(mouse0, key),
           InputFrame(key, mouse0)
    PROVE  TextInv' /\ FrameKeeps
<1> DEFINE mouse == MouseSeen(mouse0)
           cancel == IF input.cancel > 0 THEN input.cancel - 1 ELSE 0
           start == [input EXCEPT !.cancel = cancel]
           entered == EnterStage(start, key)
<1>1. PICK taken \in SelectingText(entered) :
          LET used == NewLineStage(MenuStage(entered, mouse, taken), key)
              took == Took(used, mouse)
              laid == LayOut(MouseStage(used, mouse))
              keyed == KeyStage(laid, key, input.text = <<>>)
              next == SwitchedTab(keyed, mouse, took)
              last == BaseStage(SwitchTab(keyed, next), mouse, took)
              label == IF entered.menu /\ mouse.button = "press" THEN mouse.label ELSE "none"
          IN
          /\ Fits(last)
          /\ input' = last
          /\ tab' = next
          /\ drafts' = IF next = tab THEN drafts
                       ELSE [drafts EXCEPT ![tab] = keyed.text, ![next] = <<>>]
          /\ clipboard' = IF label \in {"cut", "copy"} THEN taken ELSE clipboard
          /\ frame' = [done |-> IF key = "return" \/ next # tab THEN key
                                ELSE IF label = "cut" THEN label ELSE "frame",
                       passed |-> key # "none" /\ ~laid.active /\ ~last.active]
  <2>1. start = [input EXCEPT !.cancel = IF @ > 0 THEN @ - 1 ELSE 0]
    BY DEF TextInv, Proper, Inputs
  <2> QED
    BY <2>1 DEF InputFrame, MouseSeen
<1> DEFINE empty == input.text = <<>>
           offered == MenuStage(entered, mouse, taken)
           used == NewLineStage(offered, key)
           took == Took(used, mouse)
           pointed == MouseStage(used, mouse)
           laid == LayOut(pointed)
           keyed == KeyStage(laid, key, empty)
           next == SwitchedTab(keyed, mouse, took)
           turned == SwitchTab(keyed, next)
           last == BaseStage(turned, mouse, took)
           label == IF entered.menu /\ mouse.button = "press" THEN mouse.label ELSE "none"
           done == IF key = "return" \/ next # tab THEN key
                   ELSE IF label = "cut" THEN label ELSE "frame"
           passed == key # "none" /\ ~laid.active /\ ~last.active
<1>2. /\ Len(last.text) <= MaxText
      /\ input' = last
      /\ tab' = next
      /\ drafts' = IF next = tab THEN drafts
                   ELSE [drafts EXCEPT ![tab] = keyed.text, ![next] = <<>>]
      /\ clipboard' = IF label \in {"cut", "copy"} THEN taken ELSE clipboard
      /\ frame' = [done |-> done, passed |-> passed]
  BY <1>1 DEF Fits
<1>3. taken \in SelectingText(entered)
  OBVIOUS
<1>0. /\ mouse = MouseSeen(mouse0)
      /\ start = [input EXCEPT !.cancel = cancel] /\ entered = EnterStage(start, key)
      /\ cancel = (IF input.cancel > 0 THEN input.cancel - 1 ELSE 0)
      /\ offered = MenuStage(entered, mouse, taken) /\ used = NewLineStage(offered, key)
      /\ pointed = MouseStage(used, mouse) /\ laid = LayOut(pointed)
      /\ keyed = KeyStage(laid, key, empty) /\ next = SwitchedTab(keyed, mouse, took)
      /\ turned = SwitchTab(keyed, next) /\ last = BaseStage(turned, mouse, took)
      /\ label = (IF entered.menu /\ mouse.button = "press" THEN mouse.label ELSE "none")
      /\ done = (IF key = "return" \/ next # tab THEN key
                 ELSE IF label = "cut" THEN label ELSE "frame")
      /\ empty \in BOOLEAN /\ (empty <=> input.text = <<>>)
      /\ passed \in BOOLEAN /\ (passed => key # "none" /\ ~laid.active /\ ~last.active)
  OBVIOUS
<1> HIDE DEF mouse, cancel, start, entered, offered, used, pointed, laid, keyed, next, turned, last,
             label, empty, done, passed, took
<1>4. Pointing(mouse, key)
  BY <1>0, SeenPoints
<1>6. /\ Proper(input) /\ clipboard \in Texts /\ drafts \in [TextTabs -> Texts]
      /\ tab \in TextTabs
  BY DEF TextInv
<1>7. /\ next \in TextTabs
      /\ next # tab => mouse.button = "press" /\ mouse.over = "tab"
  BY <1>0, <1>4, <1>6 DEF SwitchedTab, Pointing, Pointers
<1>8. /\ done = "none" => key = "none" /\ next # tab
      /\ done \in {"none", "frame", "return", "cut"}
      /\ next # tab => done = "none"
      /\ done = "return" => key = "return"
      /\ done = "cut" => label = "cut" /\ next = tab /\ key # "return"
  <2>1. next # tab => key = "none"
    BY <1>4, <1>7 DEF Pointing
  <2> QED
    BY <1>0, <2>1 DEF Keys
<1>9. /\ Proper(start) /\ start.text = input.text /\ start.active = input.active
      /\ start.menu = input.menu /\ start.lines = input.lines /\ start.caret = input.caret
      /\ start.selection = input.selection
  <2>1. input \in Inputs /\ input.cancel \in 0..ClickFrames
    BY <1>6 DEF Proper, PlacedText
  <2>2. cancel \in 0..ClickFrames /\ cancel \in Int
    BY <1>0, <2>1, TextFacts
  <2>3. start \in Inputs
    BY <1>0, <2>1, <2>2 DEF Inputs
  <2>4. /\ start.text = input.text /\ start.active = input.active /\ start.cursor = input.cursor
        /\ start.menu = input.menu /\ start.lines = input.lines /\ start.caret = input.caret
        /\ start.selection = input.selection /\ start.cancel = cancel
    BY <1>0, <2>1, <2>2 DEF Inputs
  <2> QED
    BY <1>6, <2>2, <2>3, <2>4 DEF Proper, PlacedText
<1>10. /\ Proper(entered) /\ SameLines(entered, start) /\ entered.menu = start.menu
       /\ SelectsLess(entered, start)
       /\ start.active => entered.active
       /\ key = "none" => entered = start
       /\ key = "return" /\ start.active => entered.text = <<>>
       /\ key = "return" /\ ~start.active => entered = start
       /\ key # "return" => entered.text = start.text
  <2>1. entered = EnterStage(start, key)
    BY <1>0
  <2> QED
    BY <1>9, <2>1, EnterKeeps
<1>11. taken \in Texts /\ (Len(entered.lines) = 1 => Occurs(taken, entered.text))
  <2>1. Selected(entered) => LaidOutText(entered)
    BY <1>9, <1>10 DEF SelectsLess, Selected, SameLines, LaidOutText, TextInv
  <2> QED
    BY <1>3, <1>10, <2>1, SelectingIsText
<1>12. /\ Proper(offered) /\ offered.active = entered.active
       /\ ~(entered.menu /\ mouse.button = "press") => offered = entered
       /\ mouse.label \notin {"cut", "paste"} => offered.text = entered.text
       /\ entered.menu /\ mouse.button = "press" /\ mouse.label = "cut" =>
              offered.text = Removed(entered.text, taken)
  BY <1>0, <1>6, <1>10, <1>11, MenuKeeps
<1>13. /\ Proper(used) /\ used.active = offered.active
       /\ key # "shift_return" => used = offered
  BY <1>0, <1>12, NewLineKeeps
<1>14. /\ mouse.at \in Nat
       /\ mouse.button = "held" => mouse.at \in 0..Len(used.text)
  <2>1. mouse.at \in 0..Len(input.text) /\ mouse.at \in Nat
    BY <1>4 DEF Pointing, Pointers
  <2>2. mouse.button = "held" => key = "none"
    BY <1>4 DEF Pointing
  <2>3. mouse.button = "held" => used.text = input.text
    BY <1>9, <1>10, <1>12, <1>13, <2>2
  <2> QED
    BY <2>1, <2>3
<1>15. /\ Proper(pointed) /\ pointed.text = used.text /\ pointed.active = used.active
       /\ mouse.button = "none" => pointed = used
  BY <1>0, <1>13, <1>14, MouseKeeps
<1>16. /\ Proper(laid) /\ laid.text = pointed.text /\ laid.active = pointed.active /\ LaidOutText(laid)
  BY <1>0, <1>15, LayOutKeeps
<1>17. /\ Proper(keyed) /\ keyed.text = laid.text /\ SameLines(keyed, laid)
       /\ keyed.selection = laid.selection
       /\ key = "none" => keyed = laid
       /\ key = "return" => keyed.active = (~laid.active \/ laid.lines[1] # <<>> \/ ~empty)
  BY <1>0, <1>16, KeyKeeps
<1>18. /\ Proper(turned) /\ turned.active = keyed.active /\ SameLines(turned, keyed)
       /\ next = tab => turned = keyed
       /\ next # tab => turned.text = drafts[next] /\ ~Selected(turned)
  BY <1>0, <1>6, <1>17, <1>7, SwitchKeeps
<1>19. /\ Proper(last) /\ last.text = turned.text /\ SameLines(last, turned)
       /\ last.selection = turned.selection
       /\ mouse.button = "none" => last = turned
  BY <1>0, <1>18, BaseKeeps
<1>20. next # tab => laid.text = input.text
  <2>1. next # tab => key = "none" /\ mouse.label = "none"
    BY <1>4, <1>7 DEF Pointing
  <2> QED
    BY <1>9, <1>10, <1>12, <1>13, <1>15, <1>16, <2>1
<1>21. TextInv'
  <2>1. drafts' \in [TextTabs -> Texts]
    <3>1. keyed.text \in Texts
      BY <1>17 DEF Proper, Inputs
    <3> DEFINE none == <<>>
    <3>2. none \in Texts /\ drafts' = IF next = tab THEN drafts
                           ELSE [drafts EXCEPT ![tab] = keyed.text, ![next] = none]
      BY <1>2, TextFacts
    <3> HIDE DEF none
    <3> QED
      BY <1>6, <3>1, <3>2
  <2>2. clipboard' \in Texts
    BY <1>2, <1>6, <1>11
  <2>3. frame' \in [done : {"none", "frame", "return", "cut"}, passed : BOOLEAN]
    <3> DEFINE ways == {"none", "frame", "return", "cut"}
    <3>1. done \in ways /\ passed \in BOOLEAN /\ frame' = [done |-> done, passed |-> passed]
      BY <1>2, <1>0, <1>8
    <3> HIDE DEF ways
    <3>2. frame' \in [done : ways, passed : BOOLEAN]
      BY <3>1
    <3> QED
      BY <3>2 DEF ways
  <2>4. frame'.done = done
    BY <1>2
  <2>5. done # "none" => LaidOutText(last)
    <3> SUFFICES ASSUME next = tab PROVE LaidOutText(last)
      BY <1>8
    <3>1. /\ last.lines = laid.lines /\ last.caret = laid.caret /\ last.text = laid.text
      BY <1>17, <1>18, <1>19 DEF SameLines
    <3> QED
      BY <1>16, <3>1 DEF LaidOutText
  <2>6. Selected(last) => done # "none"
    BY <1>8, <1>18, <1>19 DEF Selected
  <2> QED
    BY <1>2, <1>7, <1>19, <2>1, <2>2, <2>3, <2>4, <2>5, <2>6
       DEF TextInv, Proper, PlacedText, LaidOutText, Selected
<1>22. FrameKeeps
  <2>1. frame'.done = done /\ frame'.passed = passed
    BY <1>2
  <2>2. ASSUME done = "return"
        PROVE  /\ last.active = (~input.active \/ input.text # <<>>)
               /\ input.active => last.text = <<>>
    <3>1. key = "return" /\ key # "none" /\ key # "shift_return" /\ mouse.button = "none"
      BY <1>4, <1>8, <2>2 DEF Pointing
    <3>2. next = tab
      BY <1>7, <3>1
    <3>3. /\ laid.text = entered.text /\ laid.active = entered.active
          /\ last.active = keyed.active /\ last.text = keyed.text
      BY <1>12, <1>13, <1>15, <1>16, <1>18, <1>19, <3>1, <3>2
    <3>4. CASE ~input.active
      BY <1>9, <1>10, <1>17, <3>1, <3>3, <3>4
    <3>5. CASE input.active
      <4>1. entered.text = <<>> /\ entered.active
        BY <1>9, <1>10, <3>1, <3>5
      <4>2. laid.lines[1] = <<>>
        <5> DEFINE page == LinesFrom(EmptyLines, laid.text)
        <5>1. laid.text = <<>>
          BY <3>3, <4>1
        <5>2. page = EmptyLines
          BY <5>1, NothingIsEmpty
        <5>3. laid.lines = Append(page.done, page.cur)
          BY <1>16 DEF LaidOutText
        <5> QED
          BY <5>2, <5>3, EmptyIsPage
      <4>3. keyed.active = ~empty
        BY <1>0, <1>17, <3>1, <3>3, <4>1, <4>2
      <4> QED
        BY <1>0, <1>17, <3>3, <3>5, <4>1, <4>3
    <3> QED
      BY <3>4, <3>5
  <2>3. passed => ~input.active /\ ~last.active
    <3>1. laid.active = entered.active
      BY <1>12, <1>13, <1>15, <1>16
    <3> QED
      BY <1>0, <1>9, <1>10, <3>1
  <2>4. ASSUME done = "cut", Len(input.lines) = 1
        PROVE  \E i \in 0..Len(last.text) : input.text = Insert(last.text, i, clipboard')
    <3>1. /\ label = "cut" /\ next = tab /\ entered.menu /\ mouse.button = "press"
          /\ mouse.label = "cut"
      BY <1>0, <1>8, <2>4
    <3>2. key = "none"
      BY <1>4, <3>1 DEF Pointing
    <3>3. last.text = Removed(input.text, taken)
      BY <1>9, <1>10, <1>12, <1>13, <1>15, <1>16, <1>17, <1>18, <1>19, <3>1, <3>2
    <3>4. clipboard' = taken
      BY <1>2, <3>1
    <3>5. Occurs(taken, input.text)
      BY <1>9, <1>10, <1>11, <2>4, <3>2
    <3>6. input.text \in Texts
      BY <1>6 DEF Proper, Inputs
    <3> QED
      BY <1>11, <3>3, <3>4, <3>5, <3>6, RemovedIsText
  <2>5. ASSUME next # tab PROVE last.text = drafts[next] /\ drafts'[tab] = input.text
    <3>1. drafts' = [drafts EXCEPT ![tab] = keyed.text, ![next] = <<>>]
      BY <1>2, <2>5
    <3>2. drafts'[tab] = keyed.text
      BY <1>6, <1>7, <2>5, <3>1
    <3> QED
      BY <1>17, <1>18, <1>19, <1>20, <2>5, <3>2
  <2>6. \A t \in TextTabs \ {tab, next} : drafts'[t] = drafts[t]
    BY <1>2, <1>6
  <2> QED
    BY <1>2, <2>1, <2>2, <2>3, <2>4, <2>5, <2>6 DEF FrameKeeps
<1> QED
  BY <1>21, <1>22

LEMMA TypedStep ==
    ASSUME TextInv, NEW c \in Chars, Typed(c)
    PROVE  TextInv' /\ FrameKeeps
<1> DEFINE s == Sorted(input.selection)
           n == Len(input.text)
           low == SubSeq(input.text, 1, s[1])
           high == SubSeq(input.text, s[2] + 1, n)
           rest == low \o high
           at == IF s[1] = s[2] THEN input.cursor ELSE s[1]
           added == <<c>>
           text == Insert(rest, at, added)
           set == SetString(input, text)
           cursor == at + 1
           last == [set EXCEPT !.cursor = cursor]
           done == "none"
           passed == FALSE
<1>1. /\ Len(last.text) <= MaxText /\ input' = last
      /\ frame' = [done |-> done, passed |-> passed]
      /\ tab' = tab /\ drafts' = drafts /\ clipboard' = clipboard
  BY DEF Typed, Fits
<1>2. /\ Proper(input) /\ clipboard \in Texts /\ drafts \in [TextTabs -> Texts]
      /\ tab \in TextTabs
  BY DEF TextInv
<1>3. /\ input.text \in Texts /\ n \in Nat /\ input.selection \in Int \X Int
      /\ input.cursor \in 0..n
      /\ input.selection[1] \in 0..n /\ input.selection[2] \in 0..n
  BY <1>2 DEF Proper, Inputs, PlacedText, Texts
<1>4. /\ s[1] \in 0..n /\ s[2] \in 0..n /\ s[1] <= s[2]
  BY <1>3, SortedPair
<1>5. added \in Texts /\ Len(added) = 1
  BY DEF Texts
<1>6. done = "none" /\ passed = FALSE /\ passed \in BOOLEAN
  OBVIOUS
<1> HIDE DEF s, added, done, passed
<1>7. /\ low \in Texts /\ Len(low) = s[1] /\ high \in Texts /\ Len(high) = n - s[2]
  <2> DEFINE i == s[2] + 1
             j == s[1]
             one == 1
  <2>1. /\ one \in 1..(n + 1) /\ j \in (one - 1)..n /\ i \in 1..(n + 1) /\ n \in (i - 1)..n
        /\ i = s[2] + 1 /\ j = s[1] /\ one = 1
    BY <1>3, <1>4
  <2> HIDE DEF i, j, one
  <2>2. SubSeq(input.text, one, j) \in Texts /\ Len(SubSeq(input.text, one, j)) = j - one + 1
    BY <1>3, <2>1, PartOf
  <2>3. SubSeq(input.text, i, n) \in Texts /\ Len(SubSeq(input.text, i, n)) = n - i + 1
    BY <1>3, <2>1, PartOf
  <2> HIDE DEF n
  <2>4. ASSUME NEW a \in Int, NEW b \in Int, NEW m \in Int
        PROVE  a - 1 + 1 = a /\ m - (b + 1) + 1 = m - b
    OBVIOUS
  <2>5. s[1] \in Int /\ s[2] \in Int /\ n \in Int
    BY <1>3, <1>4
  <2>6. j - one + 1 = s[1] /\ n - i + 1 = n - s[2]
    BY <2>1, <2>4, <2>5
  <2> QED
    BY <2>1, <2>2, <2>3, <2>6 DEF low, high, i, j, one, n
<1> HIDE DEF low, high
<1>8. rest \in Texts /\ Len(rest) = s[1] + (n - s[2])
  BY <1>7, Joined
<1>9. at \in 0..Len(rest) /\ at \in Nat /\ Len(rest) \in Nat
  <2>1. CASE s[1] = s[2]
    BY <1>3, <1>4, <1>8, <2>1
  <2>2. CASE s[1] # s[2]
    BY <1>3, <1>4, <1>8, <2>2
  <2> QED
    BY <2>1, <2>2
<1> HIDE DEF rest, at
<1>10. text \in Texts /\ Len(text) = Len(rest) + 1
  BY <1>5, <1>8, <1>9, InsertIsText
<1> HIDE DEF text
<1>11. /\ Proper(set) /\ set.text = text /\ ~Selected(set)
  BY <1>2, <1>10, SetStringKeeps
<1> HIDE DEF set
<1>12. cursor \in Nat /\ Within(set, cursor) = cursor
  BY <1>9, <1>10, <1>11 DEF Within
<1>13. last = SetCursor(set, cursor)
  BY <1>12 DEF SetCursor
<1> HIDE DEF cursor, last
<1>14. Proper(last) /\ last.selection = set.selection
  BY <1>11, <1>12, <1>13, SetCursorKeeps
<1>15. ~Selected(last)
  BY <1>11, <1>14 DEF Selected
<1>16. frame' \in [done : {"none", "frame", "return", "cut"}, passed : BOOLEAN]
  <2> DEFINE ways == {"none", "frame", "return", "cut"}
  <2>1. done \in ways
    BY <1>6
  <2> HIDE DEF ways
  <2>2. frame' \in [done : ways, passed : BOOLEAN]
    BY <1>1, <1>6, <2>1
  <2> QED
    BY <2>2 DEF ways
<1>17. frame'.done = "none" /\ ~frame'.passed
  BY <1>1, <1>6
<1>18. TextInv'
  BY <1>1, <1>2, <1>14, <1>15, <1>16, <1>17 DEF TextInv, Proper, PlacedText, Selected
<1>19. FrameKeeps
  BY <1>1, <1>17 DEF FrameKeeps
<1> QED
  BY <1>18, <1>19

LEMMA MicePoint ==
    ASSUME TextInv, NEW mouse \in Mice
    PROVE  Pointing(mouse, "none")
<1>1. /\ Len(input.text) \in Nat /\ 0 \in 0..Len(input.text) /\ 0 \in TextTabs
  BY TextFacts DEF TextInv, Proper, Inputs, Texts, TextTabs
<1>2. NoMouse \in Pointers
  BY <1>1 DEF NoMouse, Pointers
<1>3. ASSUME NEW button \in {"press", "held", "release", "right"},
             NEW over \in {"outside", "input", "tab"}, NEW at \in 0..Len(input.text)
      PROVE  /\ Mouse(button, over, at) \in Pointers /\ Mouse(button, over, at).at = at
             /\ Mouse(button, over, at).over = over /\ Mouse(button, over, at).button = button
             /\ Mouse(button, over, at).label = "none"
  <2> DEFINE m == NoMouse
  <2>1. m \in Pointers /\ m.label = "none"
    BY <1>2 DEF NoMouse
  <2>2. Mouse(button, over, at) = [m EXCEPT !.button = button, !.over = over, !.at = at]
    BY DEF Mouse
  <2>3. at \in Nat /\ button \in {"none", "press", "held", "release", "right"}
    BY <1>1
  <2> HIDE DEF m
  <2> QED
    BY <2>1, <2>2, <2>3 DEF Pointers
<1>4. CASE mouse \in {Mouse(button, "input", at) : button \in {"press", "held"}, at \in 0..Len(input.text)}
  <2>1. PICK button \in {"press", "held"}, at \in 0..Len(input.text) :
            mouse = Mouse(button, "input", at)
    BY <1>4
  <2> QED
    BY <1>3, <2>1 DEF Pointing
<1>5. CASE mouse \in {Mouse("release", "input", 0), Mouse("right", "input", 0)}
  BY <1>1, <1>3, <1>5 DEF Pointing
<1>6. CASE mouse \in {Mouse(button, "outside", 0) : button \in {"press", "held"}}
  <2>1. PICK button \in {"press", "held"} : mouse = Mouse(button, "outside", 0)
    BY <1>6
  <2> QED
    BY <1>1, <1>3, <2>1 DEF Pointing
<1>7. CASE mouse \in {[Mouse("press", "tab", 0) EXCEPT !.tab = t] : t \in TextTabs}
  <2>1. PICK t \in TextTabs : mouse = [Mouse("press", "tab", 0) EXCEPT !.tab = t]
    BY <1>7
  <2> DEFINE m == Mouse("press", "tab", 0)
  <2>2. m \in Pointers /\ m.at = 0 /\ m.label = "none"
    BY <1>1, <1>3
  <2> HIDE DEF m
  <2>3. mouse = [m EXCEPT !.tab = t]
    BY <2>1 DEF m
  <2>4. mouse \in Pointers /\ mouse.at = m.at /\ mouse.label = m.label
    BY <2>2, <2>3 DEF Pointers
  <2> QED
    BY <1>1, <2>2, <2>4 DEF Pointing
<1>8. CASE mouse \in {[Mouse("press", "input", 0) EXCEPT !.label = l] : l \in {"cut", "copy", "paste"}}
  <2>1. PICK l \in {"cut", "copy", "paste"} : mouse = [Mouse("press", "input", 0) EXCEPT !.label = l]
    BY <1>8
  <2> DEFINE m == Mouse("press", "input", 0)
  <2>2. m \in Pointers /\ m.at = 0 /\ m.over = "input"
    BY <1>1, <1>3
  <2> HIDE DEF m
  <2>3. mouse = [m EXCEPT !.label = l] /\ l \in {"none", "cut", "copy", "paste"}
    BY <2>1 DEF m
  <2>4. mouse \in Pointers /\ mouse.at = m.at /\ mouse.over = m.over
    BY <2>2, <2>3 DEF Pointers
  <2> QED
    BY <1>1, <2>2, <2>4 DEF Pointing
<1> QED
  BY <1>4, <1>5, <1>6, <1>7, <1>8 DEF Mice

LEMMA NoMousePoints ==
    ASSUME TextInv, NEW key
    PROVE  Pointing(NoMouse, key)
<1>1. Len(input.text) \in Nat /\ 0 \in TextTabs
  BY TextFacts DEF TextInv, Proper, Inputs, Texts, TextTabs
<1> QED
  BY <1>1 DEF NoMouse, Pointing, Pointers

(* Every step of the text input, whatever a key, the mouse or DxLib does.  *)
LEMMA TextStep ==
    ASSUME TextInv, TextInputNext
    PROVE  TextInv' /\ FrameKeeps
<1>1. ASSUME NEW key \in Keys, InputFrame(key, NoMouse) PROVE TextInv' /\ FrameKeeps
  BY <1>1, NoMousePoints, FrameStep
<1>2. ASSUME NEW mouse \in Mice, InputFrame("none", mouse) PROVE TextInv' /\ FrameKeeps
  BY <1>2, MicePoint, FrameStep
<1>3. ASSUME NEW c \in Chars, Typed(c) PROVE TextInv' /\ FrameKeeps
  BY <1>3, TypedStep
<1> QED
  BY <1>1, <1>2, <1>3 DEF TextInputNext

LEMMA TextStarts == TextInputInit => TextInv
<1> SUFFICES ASSUME TextInputInit PROVE TextInv
  OBVIOUS
<1> DEFINE none == <<>>
           rows == <<none>>
           zero == 0
           on == TRUE
           off == FALSE
           no == "no"
<1>1. /\ none \in Texts /\ Len(none) = 0 /\ none = <<>> /\ zero \in Int /\ zero = 0
      /\ zero \in 0..ClickFrames /\ on \in BOOLEAN /\ off \in BOOLEAN /\ no \in Drags
  BY TextFacts DEF Drags
<1>2. rows \in Rows /\ Len(rows) = 1 /\ rows = Append(none, none) /\ DOMAIN rows = 1..1
  BY <1>1 DEF Rows
<1>3. /\ input = [text |-> none, cursor |-> zero, selection |-> NoSelection, active |-> on,
                  lines |-> rows, caret |-> zero, menu |-> off, drag |-> no, cancel |-> zero]
      /\ drafts = [t \in TextTabs |-> none] /\ clipboard = none
      /\ frame = [done |-> "frame", passed |-> off]
  BY DEF TextInputInit
<1>4. tab \in TextTabs
  BY TextFacts DEF TextInputInit, TextTabs
<1> HIDE DEF none, rows, zero, on, off, no
<1>5. input \in Inputs
  BY <1>1, <1>2, <1>3, NothingSelected DEF Inputs
<1>6. /\ input.text = none /\ input.cursor = 0 /\ input.selection = NoSelection
      /\ input.lines = rows /\ input.caret = 0 /\ input.cancel = zero
  BY <1>1, <1>3
<1>7. Proper(input) /\ Len(input.text) <= MaxText /\ ~Selected(input)
  BY <1>1, <1>5, <1>6, NothingSelected, TextFacts DEF Proper, PlacedText, Selected
<1>8. LaidOutText(input)
  <2> DEFINE page == LinesFrom(EmptyLines, none)
  <2>1. page = EmptyLines
    BY <1>1, NothingIsEmpty
  <2>2. page.done = none /\ page.cur = none
    BY <1>1, <2>1, EmptyIsPage
  <2> HIDE DEF page
  <2>3. input.lines = Append(page.done, page.cur)
    BY <1>2, <1>6, <2>2
  <2>4. input.caret + 1 \in DOMAIN input.lines
    BY <1>2, <1>6
  <2> QED
    BY <1>6, <2>3, <2>4 DEF LaidOutText, page
<1>9. frame \in [done : {"none", "frame", "return", "cut"}, passed : BOOLEAN]
  BY <1>1, <1>3
<1> QED
  BY <1>1, <1>3, <1>4, <1>7, <1>8, <1>9 DEF TextInv

LEMMA TextIsSound == TextInv => TextSound
<1> SUFFICES ASSUME TextInv PROVE TextSound
  OBVIOUS
<1>1. /\ Proper(input) /\ Len(input.text) <= MaxText /\ Len(input.text) \in Nat
  BY DEF TextInv, Proper, Inputs, Texts
<1>2. input.selection \in (0..MaxText) \X (0..MaxText)
  <2>1. /\ input.selection \in Int \X Int
        /\ input.selection[1] \in 0..MaxText /\ input.selection[2] \in 0..MaxText
    BY <1>1, TextFacts DEF Proper, Inputs, PlacedText
  <2> QED
    BY <2>1
<1>3. TextInputTypeOK
  BY <1>1, <1>2 DEF TextInv, TextInputTypeOK, Proper, Inputs, PlacedText, Drags, Texts
<1>4. LaidOutAlike
  <2> SUFFICES ASSUME frame.done # "none"
               PROVE  /\ \E acc \in {LinesFrom(EmptyLines, input.text)} :
                             input.lines = Append(acc.done, acc.cur)
                      /\ input.caret + 1 \in DOMAIN input.lines
    BY DEF LaidOutAlike
  <2> QED
    BY DEF TextInv, LaidOutText
<1> QED
  BY <1>3, <1>4 DEF TextSound

(* What was typed is what the input holds, shows and hands on              *)
(* (client/ui/Input.cpp, client/ui/InputBox.cpp): it is laid out as it     *)
(* reads, a key has one reader and return one meaning, and no text is lost *)
(* to a cut or a change of the tab.                                        *)
THEOREM TypingIsKept == TextInputSpec => TypingKept
<1>1. TextInputInit => TextInv
  BY TextStarts
<1>2. TextInv /\ [TextInputNext]_textInputVars => TextInv'
  <2> SUFFICES ASSUME TextInv, [TextInputNext]_textInputVars PROVE TextInv'
    OBVIOUS
  <2>1. CASE TextInputNext
    BY <2>1, TextStep
  <2>2. CASE UNCHANGED textInputVars
    BY <2>2 DEF textInputVars, TextInv, Proper, PlacedText, LaidOutText, Selected
  <2> QED
    BY <2>1, <2>2
<1>3. TextInv /\ [TextInputNext]_textInputVars => [FrameKeeps]_textInputVars
  BY TextStep
<1>4. TextInv => TextSound
  BY TextIsSound
<1>5. TextInputSpec => []TextInv /\ [][FrameKeeps]_textInputVars
  BY <1>1, <1>2, <1>3, PTL DEF TextInputSpec
<1>6. TextInputSpec => []TextSound
  BY <1>4, <1>5, PTL
<1>7. [FrameKeeps]_textInputVars =>
          [frame'.done = "return" =>
              /\ input'.active = (~input.active \/ input.text # <<>>)
              /\ input.active => input'.text = <<>>]_textInputVars
  BY DEF FrameKeeps
<1>8. [FrameKeeps]_textInputVars =>
          [frame'.passed => ~input.active /\ ~input'.active]_textInputVars
  BY DEF FrameKeeps
<1>9. [FrameKeeps]_textInputVars =>
          [(frame'.done = "cut" /\ Len(input.lines) = 1) =>
              \E i \in 0..Len(input'.text) :
                  input.text = Insert(input'.text, i, clipboard')]_textInputVars
  BY DEF FrameKeeps
<1>10. [FrameKeeps]_textInputVars =>
          [/\ tab' # tab => /\ input'.text = drafts[tab'] /\ drafts'[tab] = input.text
           /\ \A t \in TextTabs \ {tab, tab'} : drafts'[t] = drafts[t]]_textInputVars
  BY DEF FrameKeeps
<1>11. TextInputSpec => KeysRead
  BY <1>5, <1>7, <1>8, PTL DEF KeysRead, ReturnToggles, KeysHaveOneReader
<1>12. TextInputSpec => TextKept
  BY <1>5, <1>9, <1>10, PTL DEF TextKept, CutIsKept, DraftsKept
<1> QED
  BY <1>6, <1>11, <1>12 DEF TypingKept

-----------------------------------------------------------------------------
(* The list of labels.  First the lines of one label: where each begins    *)
(* and ends, as far as the text has been gone through.                     *)
Wrap == [pairs : Seq(Nat), width : Nat]
NoLines == [pairs |-> <<0>>, width |-> 0]

LEMMA WrapCharIsWrap ==
    ASSUME NEW acc \in Wrap, NEW i \in Nat \ {0}, NEW c
    PROVE  WrapChar(acc, i, c) \in Wrap
<1>1. acc.pairs \in Seq(Nat) /\ acc.width \in Nat /\ i - 1 \in Nat
  BY DEF Wrap
<1>2. /\ acc.pairs \o <<i - 1, i>> \in Seq(Nat) /\ acc.pairs \o <<i - 1, i - 1>> \in Seq(Nat)
  BY <1>1
<1> QED
  BY <1>1, <1>2 DEF WrapChar, Wrap

Wrappings(f, text) ==
    f[0] = NoLines /\ \A i \in 1..Len(text) : f[i] = WrapChar(f[i - 1], i, text[i])

LEMMA WrappingIsUnique ==
    ASSUME NEW A, NEW text \in Seq(A), NEW f, NEW g, Wrappings(f, text), Wrappings(g, text)
    PROVE  f[Len(text)] = g[Len(text)]
<1> DEFINE n == Len(text)
           S == {i \in Nat : i <= n => f[i] = g[i]}
<1>1. n \in Nat
  OBVIOUS
<1>2. 0 \in S
  BY DEF Wrappings
<1>3. ASSUME NEW i \in Nat, i \in S PROVE i + 1 \in S
  <2> SUFFICES ASSUME i + 1 <= n PROVE f[i + 1] = g[i + 1]
    OBVIOUS
  <2>1. i + 1 \in 1..n /\ (i + 1) - 1 = i /\ f[i] = g[i]
    BY <1>1, <1>3
  <2>2. /\ f[i + 1] = WrapChar(f[i], i + 1, text[i + 1])
        /\ g[i + 1] = WrapChar(g[i], i + 1, text[i + 1])
    BY <2>1 DEF Wrappings
  <2> QED
    BY <2>1, <2>2
<1> HIDE DEF S
<1>4. n \in S
  BY <1>1, <1>2, <1>3, SetInduction
<1> QED
  BY <1>4 DEF S

LEMMA LabelIsWrapping ==
    ASSUME NEW A, NEW text \in Seq(A)
    PROVE  \E f : /\ f \in [0..Len(text) -> Wrap] /\ Wrappings(f, text)
                  /\ SubstrList(text) = Append(f[Len(text)].pairs, Len(text))
<1> DEFINE n == Len(text)
           step == [i \in 1..n |-> [a \in Wrap |-> WrapChar(a, i, text[i])]]
           Fold(g) == g = [i \in 0..n |-> IF i = 0 THEN [pairs |-> <<0>>, width |-> 0]
                                                   ELSE WrapChar(g[i - 1], i, text[i])]
           upTo == CHOOSE g : Fold(g)
<1>1. n \in Nat
  OBVIOUS
<1>2. step \in [1..n -> [Wrap -> Wrap]]
  <2>1. ASSUME NEW i \in 1..n, NEW a \in Wrap PROVE WrapChar(a, i, text[i]) \in Wrap
    <3>1. i \in Nat \ {0}
      BY <1>1
    <3> QED
      BY <3>1, WrapCharIsWrap
  <2> QED
    BY <2>1
<1>3. \A i \in 1..n, a \in Wrap : step[i][a] = WrapChar(a, i, text[i])
  OBVIOUS
<1>4. NoLines \in Wrap
  <2>1. <<0>> \in Seq(Nat) /\ 0 \in Nat
    OBVIOUS
  <2> QED
    BY <2>1 DEF NoLines, Wrap
<1> HIDE DEF step
<1>5. PICK f \in [0..n -> Wrap] : f[0] = NoLines /\ \A i \in 1..n : f[i] = step[i][f[i - 1]]
  <2>1. n \in Nat /\ step \in Steps(Wrap, n)
    BY <1>1, <1>2 DEF Steps
  <2>2. Folds(Wrap, n, NoLines, step)
    BY <1>4, <2>1, FoldDefined
  <2> QED
    BY <2>2 DEF Folds
<1>6. \A i \in 1..n : f[i] = WrapChar(f[i - 1], i, text[i])
  <2> TAKE i \in 1..n
  <2>1. f[i - 1] \in Wrap
    BY <1>1, <1>5
  <2> QED
    BY <1>3, <1>5, <2>1
<1>7. Fold(f)
  <2>1. ASSUME NEW i \in 0..n, i # 0 PROVE f[i] = WrapChar(f[i - 1], i, text[i])
    <3>1. i \in 1..n
      BY <1>1, <2>1
    <3> QED
      BY <1>6, <3>1
  <2> QED
    BY <1>5, <2>1 DEF NoLines
<1>8. Fold(upTo)
  <2> HIDE DEF Fold
  <2> QED
    BY <1>7
<1>9. SubstrList(text) = Append(upTo[n].pairs, n)
  BY DEF SubstrList
<1> HIDE DEF upTo
<1>10. Wrappings(upTo, text)
  <2>1. ASSUME NEW i \in 0..n
        PROVE  upTo[i] = IF i = 0 THEN [pairs |-> <<0>>, width |-> 0]
                                  ELSE WrapChar(upTo[i - 1], i, text[i])
    BY <1>8, Zenon
  <2>2. 0 \in 0..n /\ \A i \in 1..n : i \in 0..n /\ i # 0
    BY <1>1
  <2> HIDE DEF Fold
  <2> QED
    BY <2>1, <2>2 DEF Wrappings, NoLines
<1>11. Wrappings(f, text)
  BY <1>5, <1>6 DEF Wrappings
<1>12. f[n] = upTo[n]
  BY <1>10, <1>11, WrappingIsUnique
<1> QED
  BY <1>5, <1>9, <1>11, <1>12

(* A line from a to b, and what may be between it and the next one, from c. *)
IsLine(text, a, b) ==
    /\ a \in Nat /\ b \in Nat /\ a <= b /\ b <= Len(text) /\ b - a <= LabelWidth
    /\ \A p \in (a + 1)..b : text[p] # "\n"
GoesOn(text, a, b, c) == (c = b + 1 /\ text[c] = "\n") \/ (c = b /\ a < b)

WrappedTo(text, i, acc, m) ==
    /\ Len(acc.pairs) = 2 * m + 1 /\ acc.pairs[1] = 0
    /\ acc.pairs[2 * m + 1] <= i /\ acc.width = i - acc.pairs[2 * m + 1] /\ acc.width <= LabelWidth
    /\ \A p \in (acc.pairs[2 * m + 1] + 1)..i : text[p] # "\n"
    /\ \A n \in 1..m : /\ IsLine(text, acc.pairs[2 * n - 1], acc.pairs[2 * n])
                       /\ GoesOn(text, acc.pairs[2 * n - 1], acc.pairs[2 * n], acc.pairs[2 * n + 1])

LEMMA TwoPlaces ==
    ASSUME NEW s \in Seq(Nat), NEW x \in Nat, NEW y \in Nat
    PROVE  /\ s \o <<x, y>> \in Seq(Nat) /\ Len(s \o <<x, y>>) = Len(s) + 2
           /\ \A j \in 1..Len(s) : (s \o <<x, y>>)[j] = s[j]
           /\ (s \o <<x, y>>)[Len(s) + 1] = x /\ (s \o <<x, y>>)[Len(s) + 2] = y
  OBVIOUS

LEMMA OnePlace ==
    ASSUME NEW s \in Seq(Nat), NEW x \in Nat
    PROVE  /\ Append(s, x) \in Seq(Nat) /\ Len(Append(s, x)) = Len(s) + 1
           /\ \A j \in 1..Len(s) : Append(s, x)[j] = s[j]
           /\ Append(s, x)[Len(s) + 1] = x
  OBVIOUS

(* Two places more are one line more.                                      *)
LEMMA OneLineMore ==
    ASSUME NEW A, NEW text \in Seq(A), NEW i \in 1..Len(text), NEW acc \in Wrap, NEW m \in Nat,
           WrappedTo(text, i - 1, acc, m), NEW next \in Wrap, NEW y \in Nat,
           next.pairs = acc.pairs \o <<i - 1, y>>, y <= i, next.width = i - y,
           next.width <= LabelWidth, \A p \in (y + 1)..i : text[p] # "\n",
           GoesOn(text, acc.pairs[2 * m + 1], i - 1, y)
    PROVE  WrappedTo(text, i, next, m + 1)
<1> DEFINE s == acc.pairs
           t == next.pairs
           last == s[2 * m + 1]
<1>1. i \in Nat /\ i - 1 \in Nat /\ Len(text) \in Nat /\ i <= Len(text) /\ s \in Seq(Nat)
  BY DEF Wrap
<1>2. Len(s) = 2 * m + 1 /\ s[1] = 0 /\ last \in Nat
  <2>1. Len(s) = 2 * m + 1 /\ s[1] = 0
    BY DEF WrappedTo
  <2>2. \A j \in 1..Len(s) : s[j] \in Nat
    BY <1>1, ElementOfSeq
  <2> HIDE DEF s
  <2>3. 2 * m + 1 \in 1..Len(s)
    BY <2>1
  <2> QED
    BY <2>1, <2>2, <2>3, Zenon
<1>3. /\ Len(t) = 2 * m + 3
      /\ \A j \in 1..(2 * m + 1) : t[j] = s[j]
      /\ t[2 * m + 2] = i - 1 /\ t[2 * m + 3] = y
  <2>1. t = s \o <<i - 1, y>>
    OBVIOUS
  <2> HIDE DEF s, t
  <2>2. Len(s) + 1 = 2 * m + 2 /\ Len(s) + 2 = 2 * m + 3
    BY <1>2
  <2> QED
    <3>1. /\ Len(t) = Len(s) + 2 /\ \A j \in 1..Len(s) : t[j] = s[j]
          /\ t[Len(s) + 1] = i - 1 /\ t[Len(s) + 2] = y
      BY <1>1, <2>1, TwoPlaces
    <3> QED
      BY <1>2, <2>2, <3>1, Zenon
<1>4. IsLine(text, last, i - 1)
  BY <1>1, <1>2 DEF WrappedTo, IsLine
<1> HIDE DEF s, t
<1>5. ASSUME NEW n \in 1..(m + 1)
      PROVE  IsLine(text, t[2 * n - 1], t[2 * n]) /\ GoesOn(text, t[2 * n - 1], t[2 * n], t[2 * n + 1])
  <2>1. CASE n = m + 1
    <3>1. 2 * n - 1 = 2 * m + 1 /\ 2 * n = 2 * m + 2 /\ 2 * n + 1 = 2 * m + 3
      BY <2>1
    <3>2. t[2 * n - 1] = last /\ t[2 * n] = i - 1 /\ t[2 * n + 1] = y
      <4>1. 2 * m + 1 \in 1..(2 * m + 1)
        OBVIOUS
      <4>2. t[2 * m + 1] = s[2 * m + 1]
        BY <1>3, <4>1
      <4> QED
        BY <1>3, <3>1, <4>2, Zenon
    <3> QED
      BY <1>4, <3>2 DEF s
  <2>2. CASE n # m + 1
    <3>1. n \in 1..m /\ 2 * n - 1 \in 1..(2 * m + 1) /\ 2 * n \in 1..(2 * m + 1) /\ 2 * n + 1 \in 1..(2 * m + 1)
      BY <2>2
    <3>2. t[2 * n - 1] = s[2 * n - 1] /\ t[2 * n] = s[2 * n] /\ t[2 * n + 1] = s[2 * n + 1]
      BY <1>3, <3>1
    <3>3. IsLine(text, s[2 * n - 1], s[2 * n]) /\ GoesOn(text, s[2 * n - 1], s[2 * n], s[2 * n + 1])
      BY <3>1 DEF WrappedTo, s
    <3> QED
      BY <3>2, <3>3
  <2> QED
    BY <2>1, <2>2
<1>6. 2 * (m + 1) + 1 = 2 * m + 3 /\ 1 \in 1..(2 * m + 1)
  OBVIOUS
<1>7. Len(t) = 2 * (m + 1) + 1 /\ t[1] = 0 /\ t[2 * (m + 1) + 1] = y
  BY <1>2, <1>3, <1>6
<1> QED
  BY <1>5, <1>7 DEF WrappedTo, t

LEMMA WrapCharKeeps ==
    ASSUME NEW A, NEW text \in Seq(A), NEW i \in 1..Len(text), NEW acc \in Wrap, NEW m \in Nat,
           WrappedTo(text, i - 1, acc, m)
    PROVE  \E k \in Nat : WrappedTo(text, i, WrapChar(acc, i, text[i]), k)
<1> DEFINE next == WrapChar(acc, i, text[i])
           last == acc.pairs[2 * m + 1]
<1>1. /\ i \in Nat \ {0} /\ i - 1 \in Nat /\ acc.pairs \in Seq(Nat) /\ acc.width \in Nat
      /\ LabelWidth \in Nat \ {0}
  BY ListViewAssumption DEF Wrap
<1>2. next \in Wrap
  BY <1>1, WrapCharIsWrap
<1>3. /\ Len(acc.pairs) = 2 * m + 1 /\ last <= i - 1 /\ acc.width = (i - 1) - last
      /\ acc.width <= LabelWidth
  BY DEF WrappedTo
<1>4. last \in Nat
  <2>1. \A j \in 1..Len(acc.pairs) : acc.pairs[j] \in Nat
    BY <1>1, ElementOfSeq
  <2>2. 2 * m + 1 \in 1..Len(acc.pairs)
    BY <1>3
  <2> QED
    BY <2>1, <2>2, Zenon
<1>0. last = acc.pairs[2 * m + 1] /\ \A p \in (last + 1)..(i - 1) : text[p] # "\n"
  BY DEF WrappedTo
<1> HIDE DEF last
<1>5. CASE text[i] = "\n"
  <2>1. next.pairs = acc.pairs \o <<i - 1, i>> /\ next.width = 0
    BY <1>5 DEF WrapChar
  <2>2. GoesOn(text, last, i - 1, i) /\ next.width = i - i /\ next.width <= LabelWidth /\ i <= i
    BY <1>1, <1>5, <2>1 DEF GoesOn
  <2> HIDE DEF next
  <2>3. \A p \in (i + 1)..i : text[p] # "\n"
    BY <1>1
  <2>4. WrappedTo(text, i, next, m + 1)
    <3>1. i \in Nat
      BY <1>1
    <3> QED
      BY <1>0, <1>1, <1>2, <2>1, <2>2, <2>3, <3>1, OneLineMore, ZenonT(60)
  <2> QED
    BY <2>4 DEF next
<1>6. CASE text[i] # "\n" /\ acc.width + 1 > LabelWidth
  <2>1. next.pairs = acc.pairs \o <<i - 1, i - 1>> /\ next.width = 1
    BY <1>6 DEF WrapChar
  <2>2. /\ GoesOn(text, last, i - 1, i - 1) /\ next.width = i - (i - 1)
        /\ next.width <= LabelWidth /\ i - 1 <= i
    <3> HIDE DEF next
    <3>1. last < i - 1
      BY <1>1, <1>3, <1>4, <1>6
    <3> QED
      BY <1>1, <2>1, <3>1 DEF GoesOn
  <2> HIDE DEF next
  <2>3. \A p \in ((i - 1) + 1)..i : text[p] # "\n"
    BY <1>1, <1>6
  <2>4. WrappedTo(text, i, next, m + 1)
    <3>1. i \in Nat
      BY <1>1
    <3> QED
      BY <1>0, <1>1, <1>2, <2>1, <2>2, <2>3, <3>1, OneLineMore, ZenonT(60)
  <2> QED
    BY <2>4 DEF next
<1>7. CASE text[i] # "\n" /\ ~(acc.width + 1 > LabelWidth)
  <2>1. next.pairs = acc.pairs /\ next.width = acc.width + 1
    BY <1>7 DEF WrapChar, Wrap
  <2> HIDE DEF next
  <2>2. \A p \in (last + 1)..i : text[p] # "\n"
    <3> TAKE p \in (last + 1)..i
    <3>1. CASE p = i
      BY <1>7, <3>1
    <3>2. CASE p # i
      <4>1. p \in (last + 1)..(i - 1)
        BY <1>1, <1>4, <3>2
      <4> QED
        BY <1>0, <4>1
    <3> QED
      BY <3>1, <3>2
  <2>3. next.width = i - last /\ next.width <= LabelWidth /\ last <= i
    <3>1. i \in Int /\ last \in Int /\ acc.width \in Int /\ LabelWidth \in Int
      BY <1>1, <1>4
    <3>2. ~(acc.width + 1 > LabelWidth)
      BY <1>7
    <3> HIDE DEF last
    <3> QED
      BY <1>3, <2>1, <3>1, <3>2
  <2>4. WrappedTo(text, i, next, m)
    BY <1>0, <2>1, <2>2, <2>3 DEF WrappedTo
  <2> QED
    BY <2>4 DEF next
<1> QED
  BY <1>5, <1>6, <1>7

(* The lines of a label, all of them.                                      *)
LEMMA LabelIsWrapped ==
    ASSUME NEW A, NEW text \in Seq(A)
    PROVE  \E m \in Nat :
             /\ SubstrList(text) \in Seq(Nat) /\ Len(SubstrList(text)) = 2 * m + 2
             /\ SubstrList(text)[1] = 0 /\ SubstrList(text)[2 * m + 2] = Len(text)
             /\ \A n \in 1..(m + 1) : IsLine(text, SubstrList(text)[2 * n - 1], SubstrList(text)[2 * n])
             /\ \A n \in 1..m : GoesOn(text, SubstrList(text)[2 * n - 1], SubstrList(text)[2 * n],
                                       SubstrList(text)[2 * n + 1])
<1>1. PICK f \in [0..Len(text) -> Wrap] :
        Wrappings(f, text) /\ SubstrList(text) = Append(f[Len(text)].pairs, Len(text))
  BY LabelIsWrapping
<1> DEFINE len == Len(text)
           S == {i \in Nat : i <= len => \E m \in Nat : WrappedTo(text, i, f[i], m)}
<1>2. len \in Nat
  OBVIOUS
<1>3. 0 \in S
  <2>1. f[0].pairs = <<0>> /\ f[0].width = 0
    BY <1>1 DEF Wrappings, NoLines
  <2>2. WrappedTo(text, 0, f[0], 0)
    BY <2>1, ListViewAssumption DEF WrappedTo
  <2> QED
    BY <2>2
<1>4. ASSUME NEW i \in Nat, i \in S PROVE i + 1 \in S
  <2> SUFFICES ASSUME i + 1 <= len PROVE \E m \in Nat : WrappedTo(text, i + 1, f[i + 1], m)
    OBVIOUS
  <2>1. PICK m \in Nat : WrappedTo(text, i, f[i], m)
    BY <1>2, <1>4
  <2>2. i + 1 \in 1..len /\ (i + 1) - 1 = i /\ i \in 0..len
    BY <1>2
  <2>3. f[i + 1] = WrapChar(f[i], i + 1, text[i + 1]) /\ f[i] \in Wrap
    BY <1>1, <2>2 DEF Wrappings
  <2> QED
    BY <2>1, <2>2, <2>3, WrapCharKeeps
<1> HIDE DEF S
<1>5. len \in S
  BY <1>2, <1>3, <1>4, SetInduction
<1>6. PICK m \in Nat : WrappedTo(text, len, f[len], m)
  BY <1>2, <1>5 DEF S
<1> DEFINE s == f[len].pairs
           t == SubstrList(text)
<1>7. s \in Seq(Nat) /\ Len(s) = 2 * m + 1 /\ s[1] = 0 /\ s[2 * m + 1] \in Nat
  <2>1. f[len] \in Wrap
    BY <1>2
  <2>2. s \in Seq(Nat) /\ Len(s) = 2 * m + 1 /\ s[1] = 0
    BY <1>6, <2>1 DEF WrappedTo, Wrap
  <2>3. \A j \in 1..Len(s) : s[j] \in Nat
    BY <2>2, ElementOfSeq
  <2>4. 2 * m + 1 \in 1..Len(s)
    BY <2>2
  <2> QED
    BY <2>2, <2>3, <2>4, Zenon
<1>8. /\ t \in Seq(Nat) /\ Len(t) = 2 * m + 2 /\ t[2 * m + 2] = len
      /\ \A j \in 1..(2 * m + 1) : t[j] = s[j]
  <2>1. t = Append(s, len)
    BY <1>1
  <2> HIDE DEF s, t
  <2>2. Len(s) + 1 = 2 * m + 2
    BY <1>7
  <2> QED
    <3>1. /\ t \in Seq(Nat) /\ Len(t) = Len(s) + 1 /\ \A j \in 1..Len(s) : t[j] = s[j]
          /\ t[Len(s) + 1] = len
      BY <1>2, <1>7, <2>1, OnePlace
    <3> QED
      BY <1>7, <2>2, <3>1, Zenon
<1> HIDE DEF s, t
<1>9. IsLine(text, s[2 * m + 1], len)
  <2>1. /\ s[2 * m + 1] <= len /\ len - s[2 * m + 1] <= LabelWidth
        /\ \A p \in (s[2 * m + 1] + 1)..len : text[p] # "\n"
    <3>1. /\ s[2 * m + 1] <= len /\ f[len].width = len - s[2 * m + 1] /\ f[len].width <= LabelWidth
          /\ \A p \in (s[2 * m + 1] + 1)..len : text[p] # "\n"
      BY <1>6 DEF WrappedTo, s
    <3> QED
      BY <3>1
  <2> QED
    BY <1>2, <1>7, <2>1 DEF IsLine
<1>10. ASSUME NEW n \in 1..m
       PROVE  IsLine(text, t[2 * n - 1], t[2 * n]) /\ GoesOn(text, t[2 * n - 1], t[2 * n], t[2 * n + 1])
  <2>1. 2 * n - 1 \in 1..(2 * m + 1) /\ 2 * n \in 1..(2 * m + 1) /\ 2 * n + 1 \in 1..(2 * m + 1)
    OBVIOUS
  <2>2. t[2 * n - 1] = s[2 * n - 1] /\ t[2 * n] = s[2 * n] /\ t[2 * n + 1] = s[2 * n + 1]
    BY <1>8, <2>1
  <2>3. IsLine(text, s[2 * n - 1], s[2 * n]) /\ GoesOn(text, s[2 * n - 1], s[2 * n], s[2 * n + 1])
    BY <1>6 DEF WrappedTo, s
  <2> QED
    BY <2>2, <2>3
<1>11. ASSUME NEW n \in 1..(m + 1) PROVE IsLine(text, t[2 * n - 1], t[2 * n])
  <2>1. CASE n = m + 1
    <3>1. 2 * n - 1 = 2 * m + 1 /\ 2 * n = 2 * m + 2 /\ 2 * m + 1 \in 1..(2 * m + 1)
      BY <2>1
    <3> QED
      BY <1>8, <1>9, <3>1
  <2>2. CASE n # m + 1
    <3>1. n \in 1..m
      BY <2>2
    <3> QED
      BY <1>10, <3>1
  <2> QED
    BY <2>1, <2>2
<1>12. t[1] = 0
  <2>1. 1 \in 1..(2 * m + 1)
    OBVIOUS
  <2> QED
    BY <1>7, <1>8, <2>1
<1> QED
  BY <1>8, <1>10, <1>11, <1>12 DEF t


(* Every label has a line, and what is drawn is those lines.               *)
LEMMA HeightIsPositive ==
    ASSUME NEW text \in Labels
    PROVE  Heights[text] \in Nat /\ Heights[text] > 0
<1>1. text \in Seq(STRING)
  BY ListViewAssumption, Zenon
<1>2. PICK m \in Nat : Len(SubstrList(text)) = 2 * m + 2
  BY <1>1, LabelIsWrapped
<1>3. (2 * m + 2) \div 2 = m + 1
  OBVIOUS
<1>4. Heights[text] = LineHeight * (m + 1)
  BY <1>2, <1>3 DEF Heights, HeightOf
<1>5. LineHeight \in Nat /\ LineHeight > 0
  BY ListViewAssumption
<1>6. LineHeight * (m + 1) \in Nat /\ LineHeight * (m + 1) > 0
  BY <1>5
<1> QED
  BY <1>4, <1>6

LEMMA LinesAreLines ==
    ASSUME NEW A, NEW text \in Seq(A), NEW m \in Nat,
           SubstrList(text) \in Seq(Nat), Len(SubstrList(text)) = 2 * m + 2,
           \A n \in 1..(m + 1) : IsLine(text, SubstrList(text)[2 * n - 1], SubstrList(text)[2 * n])
    PROVE  /\ Len(LinesOf(text)) = m + 1 /\ DOMAIN LinesOf(text) = 1..(m + 1)
           /\ \A n \in 1..(m + 1) :
                /\ Len(LinesOf(text)[n]) = SubstrList(text)[2 * n] - SubstrList(text)[2 * n - 1]
                /\ ~Contains(LinesOf(text)[n], "\n")
                /\ SubstrList(text)[2 * n - 1] < SubstrList(text)[2 * n] => LinesOf(text)[n] # <<>>
<1> DEFINE s == SubstrList(text)
           line(n) == SubSeq(text, s[2 * n - 1] + 1, s[2 * n])
<1>1. LinesOf(text) = [n \in 1..(m + 1) |-> line(n)]
  <2>1. (2 * m + 2) \div 2 = m + 1
    OBVIOUS
  <2> QED
    BY <2>1, Zenon DEF LinesOf
<1>2. ASSUME NEW n \in 1..(m + 1)
      PROVE  /\ Len(line(n)) = s[2 * n] - s[2 * n - 1]
             /\ ~Contains(line(n), "\n")
             /\ s[2 * n - 1] < s[2 * n] => line(n) # <<>>
  <2> DEFINE a == s[2 * n - 1]
             b == s[2 * n]
  <2>1. /\ a \in Nat /\ b \in Nat /\ a <= b /\ b <= Len(text)
        /\ \A p \in (a + 1)..b : text[p] # "\n"
    BY DEF IsLine
  <2> HIDE DEF a, b, s
  <2>2. /\ Len(SubSeq(text, a + 1, b)) = b - a
        /\ \A j \in 1..(b - a) : SubSeq(text, a + 1, b)[j] = text[a + j]
    BY <2>1
  <2>3. \A j \in 1..(b - a) : a + j \in (a + 1)..b
    BY <2>1
  <2>4. ~Contains(SubSeq(text, a + 1, b), "\n")
    BY <2>1, <2>2, <2>3 DEF Contains
  <2>5. a < b => SubSeq(text, a + 1, b) # <<>>
    BY <2>1, <2>2
  <2> QED
    BY <2>2, <2>4, <2>5 DEF a, b
<1> HIDE DEF line
<1>3. Len(LinesOf(text)) = m + 1
  <2>1. m + 1 \in Nat
    OBVIOUS
  <2> QED
    BY <1>1, <2>1
<1> QED
  BY <1>1, <1>2, <1>3, Zenon

LEMMA LabelKeepsText ==
    ASSUME NEW text \in Labels
    PROVE  LET s == SubstrList(text)
               lines == LinesOf(text)
           IN  /\ s[1] = 0 /\ s[2 * Len(lines)] = Len(text)
               /\ \A n \in DOMAIN lines :
                      /\ s[2 * n - 1] <= s[2 * n] /\ Len(lines[n]) <= LabelWidth
                      /\ ~Contains(lines[n], "\n")
               /\ \A n \in 1..(Len(lines) - 1) :
                      \/ s[2 * n + 1] = s[2 * n] + 1 /\ text[s[2 * n + 1]] = "\n"
                      \/ s[2 * n + 1] = s[2 * n] /\ lines[n] # <<>>
<1>1. text \in Seq(STRING)
  BY ListViewAssumption, Zenon
<1> DEFINE s == SubstrList(text)
           lines == LinesOf(text)
<1>2. PICK m \in Nat :
        /\ s \in Seq(Nat) /\ Len(s) = 2 * m + 2
        /\ s[1] = 0 /\ s[2 * m + 2] = Len(text)
        /\ \A n \in 1..(m + 1) : IsLine(text, s[2 * n - 1], s[2 * n])
        /\ \A n \in 1..m : GoesOn(text, s[2 * n - 1], s[2 * n], s[2 * n + 1])
  BY <1>1, LabelIsWrapped
<1>3. /\ Len(lines) = m + 1 /\ DOMAIN lines = 1..(m + 1)
      /\ \A n \in 1..(m + 1) :
           /\ Len(lines[n]) = s[2 * n] - s[2 * n - 1]
           /\ ~Contains(lines[n], "\n")
           /\ s[2 * n - 1] < s[2 * n] => lines[n] # <<>>
  BY <1>1, <1>2, LinesAreLines
<1> HIDE DEF s, lines
<1>4. s[1] = 0 /\ s[2 * Len(lines)] = Len(text)
  <2>1. 2 * (m + 1) = 2 * m + 2
    OBVIOUS
  <2> QED
    BY <1>2, <1>3, <2>1, Zenon
<1>5. ASSUME NEW n \in DOMAIN lines
      PROVE  /\ s[2 * n - 1] <= s[2 * n] /\ Len(lines[n]) <= LabelWidth
             /\ ~Contains(lines[n], "\n")
  <2>1. n \in 1..(m + 1)
    BY <1>3
  <2>2. IsLine(text, s[2 * n - 1], s[2 * n])
    BY <1>2, <2>1
  <2> QED
    BY <1>3, <2>1, <2>2 DEF IsLine
<1>6. ASSUME NEW n \in 1..(Len(lines) - 1)
      PROVE  \/ s[2 * n + 1] = s[2 * n] + 1 /\ text[s[2 * n + 1]] = "\n"
             \/ s[2 * n + 1] = s[2 * n] /\ lines[n] # <<>>
  <2>1. n \in 1..m /\ n \in 1..(m + 1)
    BY <1>3
  <2>2. GoesOn(text, s[2 * n - 1], s[2 * n], s[2 * n + 1])
    BY <1>2, <2>1
  <2> QED
    BY <1>3, <2>1, <2>2 DEF GoesOn
<1> QED
  BY <1>4, <1>5, <1>6 DEF s, lines

(* The items one below the other.                                          *)
Sums(g, list, n) ==
    \A i \in 0..n : g[i] = IF i = 0 THEN 0 ELSE g[i - 1] + Heights[list[i]]

LEMMA SumsAgree ==
    ASSUME NEW list, NEW m \in Nat, NEW n \in Nat, m <= n, NEW f, NEW g, Sums(f, list, m), Sums(g, list, n)
    PROVE  \A i \in 0..m : f[i] = g[i]
<1> DEFINE S == {i \in Nat : i <= m => f[i] = g[i]}
<1>1. 0 \in S
  <2>1. 0 \in 0..m /\ 0 \in 0..n
    OBVIOUS
  <2> QED
    BY <2>1 DEF Sums
<1>2. ASSUME NEW i \in Nat, i \in S PROVE i + 1 \in S
  <2> SUFFICES ASSUME i + 1 <= m PROVE f[i + 1] = g[i + 1]
    OBVIOUS
  <2>1. i + 1 \in 0..m /\ i + 1 \in 0..n /\ (i + 1) - 1 = i /\ i + 1 # 0 /\ f[i] = g[i]
    BY <1>2
  <2>2. f[i + 1] = f[i] + Heights[list[i + 1]] /\ g[i + 1] = g[i] + Heights[list[i + 1]]
    BY <2>1 DEF Sums
  <2> QED
    BY <2>1, <2>2
<1> HIDE DEF S
<1>3. Nat \subseteq S
  BY <1>1, <1>2, SetInduction
<1> QED
  BY <1>3 DEF S

LEMMA ItemsHaveHeights ==
    ASSUME NEW list \in Seq(Labels)
    PROVE  \A i \in 1..Len(list) : list[i] \in Labels /\ Heights[list[i]] \in Nat /\ Heights[list[i]] > 0
  BY HeightIsPositive, ElementOfSeq

LEMMA SumsOf ==
    ASSUME NEW list \in Seq(Labels)
    PROVE  /\ SumOf(list, 0) = 0
           /\ \A i \in 0..Len(list) : SumOf(list, i) \in Nat
           /\ \A i \in 1..Len(list) : SumOf(list, i) = SumOf(list, i - 1) + Heights[list[i]]
<1> DEFINE n == Len(list)
           step == [i \in 1..n |-> [a \in Nat |-> a + Heights[list[i]]]]
           Fold(m, g) == g = [i \in 0..m |-> IF i = 0 THEN 0 ELSE g[i - 1] + Heights[list[i]]]
           sum(m) == CHOOSE g : Fold(m, g)
<1>1. n \in Nat /\ \A i \in 1..n : Heights[list[i]] \in Nat
  BY ItemsHaveHeights
<1>2. step \in Steps(Nat, n)
  BY <1>1 DEF Steps
<1>3. \A i \in 1..n, a \in Nat : step[i][a] = a + Heights[list[i]]
  OBVIOUS
<1> HIDE DEF step
<1>4. PICK f \in [0..n -> Nat] : f[0] = 0 /\ \A i \in 1..n : f[i] = step[i][f[i - 1]]
  <2>1. Folds(Nat, n, 0, step)
    BY <1>1, <1>2, FoldDefined
  <2> QED
    BY <2>1 DEF Folds
<1>5. ASSUME NEW i \in 1..n PROVE f[i] = f[i - 1] + Heights[list[i]]
  <2>1. f[i - 1] \in Nat
    <3>1. i - 1 \in 0..n
      BY <1>1
    <3> QED
      BY <1>4, <3>1
  <2> QED
    BY <1>3, <1>4, <2>1
<1>6. Sums(f, list, n)
  <2>1. ASSUME NEW i \in 0..n, i # 0 PROVE f[i] = f[i - 1] + Heights[list[i]]
    <3>1. i \in 1..n
      BY <1>1, <2>1
    <3> QED
      BY <1>5, <3>1
  <2> QED
    BY <1>4, <2>1 DEF Sums
<1>7. ASSUME NEW m \in 0..n PROVE SumOf(list, m) = f[m]
  <2>0. m \in Nat /\ m <= n /\ m \in 0..m
    BY <1>1
  <2> DEFINE g == [i \in 0..m |-> f[i]]
  <2>1. Fold(m, g)
    <3>1. ASSUME NEW i \in 0..m PROVE g[i] = IF i = 0 THEN 0 ELSE g[i - 1] + Heights[list[i]]
      <4>1. i \in 0..n /\ (i # 0 => i - 1 \in 0..m)
        BY <1>1, <2>0
      <4> QED
        BY <1>6, <4>1 DEF Sums
    <3>2. g = [i \in 0..m |-> g[i]]
      OBVIOUS
    <3> HIDE DEF g
    <3> QED
      BY <3>1, <3>2
  <2> HIDE DEF g
  <2>2. Fold(m, sum(m))
    <3> HIDE DEF Fold
    <3> QED
      BY <2>1
  <2>3. SumOf(list, m) = sum(m)[m]
    BY DEF SumOf
  <2> HIDE DEF sum
  <2>4. Sums(sum(m), list, m)
    <3>1. ASSUME NEW i \in 0..m
          PROVE  sum(m)[i] = IF i = 0 THEN 0 ELSE sum(m)[i - 1] + Heights[list[i]]
      BY <2>2, Zenon
    <3> HIDE DEF Fold
    <3> QED
      BY <3>1 DEF Sums
  <2>5. sum(m)[m] = f[m]
    <3> DEFINE u == sum(m)
    <3>0. n \in Nat /\ m \in Nat /\ m <= n /\ Sums(u, list, m) /\ Sums(f, list, n)
      BY <1>1, <1>6, <2>0, <2>4
    <3> HIDE DEF n, u
    <3>2. \A i \in 0..m : u[i] = f[i]
      BY <3>0, SumsAgree
    <3>1. \A i \in 0..m : sum(m)[i] = f[i]
      BY <3>2 DEF u
    <3> QED
      BY <2>0, <3>1, Zenon
  <2> QED
    BY <2>3, <2>5
<1>8. 0 \in 0..n /\ \A i \in 1..n : i \in 0..n /\ i - 1 \in 0..n
  BY <1>1
<1> HIDE DEF n
<1>9. SumOf(list, 0) = 0
  BY <1>4, <1>7, <1>8
<1>10. \A i \in 0..n : SumOf(list, i) \in Nat
  BY <1>4, <1>7
<1>11. \A i \in 1..n : SumOf(list, i) = SumOf(list, i - 1) + Heights[list[i]]
  BY <1>5, <1>7, <1>8
<1> QED
  BY <1>9, <1>10, <1>11 DEF n

LEMMA SumsGrow ==
    ASSUME NEW list \in Seq(Labels), NEW i \in 0..Len(list), NEW j \in 0..Len(list), i <= j
    PROVE  SumOf(list, i) <= SumOf(list, j)
<1> DEFINE n == Len(list)
           S == {d \in Nat : i + d <= n => SumOf(list, i) <= SumOf(list, i + d)}
<1>1. n \in Nat /\ i \in Nat /\ j \in Nat /\ j <= n
  OBVIOUS
<1>2. /\ \A k \in 0..n : SumOf(list, k) \in Nat
      /\ \A k \in 1..n : /\ SumOf(list, k) = SumOf(list, k - 1) + Heights[list[k]]
                         /\ Heights[list[k]] \in Nat
  BY SumsOf, ItemsHaveHeights
<1> HIDE DEF n
<1>3. 0 \in S
  <2>1. i + 0 = i /\ i \in 0..n
    BY DEF n
  <2>2. SumOf(list, i) <= SumOf(list, i + 0)
    BY <1>2, <2>1
  <2> QED
    BY <2>2
<1>4. ASSUME NEW d \in Nat, d \in S PROVE d + 1 \in S
  <2> SUFFICES ASSUME i + (d + 1) <= n PROVE SumOf(list, i) <= SumOf(list, i + (d + 1))
    OBVIOUS
  <2>1. i + d <= n /\ i + d \in 0..n /\ i + (d + 1) \in 1..n /\ (i + (d + 1)) - 1 = i + d /\ i \in 0..n
        /\ i + (d + 1) \in 0..n
    BY <1>1
  <2>2. SumOf(list, i) <= SumOf(list, i + d)
    BY <1>4, <2>1
  <2>3. SumOf(list, i + (d + 1)) = SumOf(list, i + d) + Heights[list[i + (d + 1)]]
        /\ Heights[list[i + (d + 1)]] \in Nat
    BY <1>2, <2>1
  <2>4. SumOf(list, i) \in Nat /\ SumOf(list, i + d) \in Nat
    BY <1>2, <2>1
  <2> QED
    BY <2>2, <2>3, <2>4
<1> HIDE DEF S
<1>5. j - i \in Nat /\ i + (j - i) = j
  BY <1>1
<1>6. j - i \in S
  BY <1>3, <1>4, <1>5, SetInduction
<1> QED
  BY <1>1, <1>5, <1>6 DEF S


(* What the last frame has drawn, with the items at -at.                   *)
Room == IF Content > ViewHeight THEN Content - ViewHeight ELSE 0
Shown(at) ==
    /\ bar.max = Room
    /\ bar.max > 0 => bar.y = ((ViewHeight - bar.height) * at) \div bar.max
    /\ tops = [i \in DOMAIN items |-> SumTo(i - 1) - at]
    /\ \A i \in DOMAIN items :
          SumTo(i - 1) - at < ViewHeight /\ SumTo(i) - at > 0 =>
              drawn.first > 0 /\ i \in drawn.first..drawn.last

ListInv ==
    /\ items \in Seq(Labels) /\ frames \in 0..2 /\ scroll \in Int /\ target \in Int /\ grip \in Int
    /\ bar \in [y : Nat, height : Nat, max : Nat] /\ bar.height < ViewHeight
    /\ frames > 0 => \E at \in Nat : Shown(at) /\ (frames = 2 => at <= bar.max)

LEMMA NormalizedWithin ==
    ASSUME NEW n \in Int, NEW max \in Nat
    PROVE  Normalized(n, max) \in 0..max /\ (n \in 0..max => Normalized(n, max) = n)
  BY DEF Normalized

LEMMA DivIsInt ==
    ASSUME NEW a \in Int, NEW b \in Nat, b > 0
    PROVE  Div(a, b) \in Int /\ (a >= 0 => Div(a, b) = a \div b)
<1>1. CASE a >= 0
  <2>1. a \div b \in Int
    BY <1>1
  <2>2. Div(a, b) = a \div b
    BY <1>1 DEF Div
  <2> QED
    BY <2>1, <2>2
<1>2. CASE a < 0
  <2>1. -a \in Nat
    BY <1>2
  <2>2. (-a) \div b \in Int
    BY <2>1
  <2>3. Div(a, b) = -((-a) \div b)
    BY <1>2 DEF Div
  <2> QED
    BY <1>2, <2>2, <2>3
<1> QED
  BY <1>1, <1>2

LEMMA ScrollIsInRange ==
    ASSUME ListInv, NEW y \in Int, NEW column \in BOOLEAN, NEW left \in BOOLEAN, NEW wheel \in Int
    PROVE  /\ ScrollAfter(y, column, left, wheel) \in 0..bar.max
           /\ GripAfter(y, column, left) \in Int
<1>1. /\ bar.y \in Nat /\ bar.height \in Nat /\ bar.max \in Nat /\ bar.height < ViewHeight
      /\ scroll \in Int /\ grip \in Int /\ ViewHeight \in Nat /\ WheelStep \in Nat
  BY ListViewAssumption DEF ListInv
<1> DEFINE gripped == GripAfter(y, column, left)
           dragged == (y - gripped) * bar.max
           wanted == IF gripped >= 0 THEN Div(dragged, ViewHeight - bar.height)
                     ELSE IF y \in 0..ViewHeight THEN scroll - wheel * WheelStep ELSE scroll
<1>2. gripped \in Int
  BY <1>1 DEF GripAfter
<1>3. dragged \in Int /\ wheel * WheelStep \in Int /\ ViewHeight - bar.height \in Nat
      /\ ViewHeight - bar.height > 0
  BY <1>1, <1>2
<1>4. wanted \in Int
  <2> HIDE DEF gripped, dragged
  <2>1. Div(dragged, ViewHeight - bar.height) \in Int
    BY <1>3, DivIsInt
  <2> QED
    BY <1>1, <1>3, <2>1
<1>5. ScrollAfter(y, column, left, wheel) = Normalized(wanted, bar.max)
  BY DEF ScrollAfter
<1>6. GripAfter(y, column, left) \in Int
  BY <1>2
<1> HIDE DEF wanted, gripped
<1>7. Normalized(wanted, bar.max) \in 0..bar.max
  BY <1>1, <1>4, NormalizedWithin, Zenon
<1> QED
  BY <1>5, <1>6, <1>7, Zenon

LEMMA ListDivides ==
    ASSUME NEW n \in Nat, NEW q \in Nat, q >= 1
    PROVE  /\ n \div q \in Nat /\ n % q \in 0..(q - 1)
           /\ n = q * (n \div q) + (n % q)
  OBVIOUS

(* The share of the bar is less than the list it stands for.               *)
LEMMA ShareIsLess ==
    ASSUME NEW v \in Nat, NEW c \in Nat, v > 0, c > v
    PROVE  (v * v) \div c \in Nat /\ (v * v) \div c < v
<1> DEFINE q == (v * v) \div c
           r == (v * v) % c
<1>1. v * v \in Nat /\ c >= 1
  OBVIOUS
<1>2. q \in Nat /\ r \in 0..(c - 1) /\ v * v = c * q + r
  <2> DEFINE w == v * v
  <2>1. w \in Nat
    BY <1>1
  <2> HIDE DEF w
  <2>2. /\ w \div c \in Nat /\ w % c \in 0..(c - 1)
        /\ w = c * (w \div c) + (w % c)
    BY <1>1, <2>1, ListDivides
  <2> QED
    BY <2>2 DEF w
<1> HIDE DEF q, r
<1>3. ~(q >= v)
  <2> SUFFICES ASSUME q >= v PROVE FALSE
    OBVIOUS
  <2>1. PICK d \in Nat : q = v + d
    <3>1. q - v \in Nat /\ q = v + (q - v)
      BY <1>2
    <3> QED
      BY <3>1
  <2>2. PICK e \in Nat : c = v + e /\ e > 0
    <3>1. c - v \in Nat /\ c = v + (c - v) /\ c - v > 0
      OBVIOUS
    <3> QED
      BY <3>1
  <2>3. c * q = v * v + v * d + e * v + e * d
    BY <2>1, <2>2
  <2>4. v * d \in Nat /\ e * d \in Nat /\ e * v > 0 /\ e * v \in Nat
    BY <2>1, <2>2
  <2> QED
    BY <1>1, <1>2, <2>3, <2>4
<1> QED
  BY <1>2, <1>3 DEF q

(* The first and the last item that are drawn.                             *)
LEMMA LeastIsLeast ==
    ASSUME NEW S \in SUBSET Nat, NEW else, S # {}
    PROVE  Least(S, else) \in S /\ \A n \in S : Least(S, else) <= n
<1>1. \E n \in S : \A m \in S : n <= m
  BY LeastOf
<1> QED
  BY <1>1 DEF Least

LEMMA LaidOutShows ==
    ASSUME ListInv, NEW at \in Nat, LaidOut(at), UNCHANGED items
    PROVE  /\ Shown(at)' /\ scroll' \in Int /\ target' \in Int
           /\ bar' \in [y : Nat, height : Nat, max : Nat] /\ bar'.height < ViewHeight
<1> DEFINE bottom(i) == SumTo(i) - at
           n == Len(items)
           S == {i \in DOMAIN items : bottom(i) > 0}
           first == Least(S, 0)
           T == {i \in DOMAIN items \ {first} : bottom(i) > ViewHeight}
           last == Least(T, n)
           max == Room
           share == (ViewHeight * ViewHeight) \div Content
           height == IF share < MinBar THEN MinBar ELSE share
<1>1. /\ items \in Seq(Labels) /\ n \in Nat /\ DOMAIN items = 1..n
      /\ ViewHeight \in Nat /\ MinBar \in Nat /\ MinBar < ViewHeight /\ target \in Int
  BY ListViewAssumption DEF ListInv
<1>2. /\ tops' = [i \in DOMAIN items |-> SumTo(i - 1) - at]
      /\ drawn' = [first |-> first, last |-> last]
      /\ bar' = IF max = 0 THEN [y |-> 0, height |-> 0, max |-> 0]
                ELSE [y |-> ((ViewHeight - height) * at) \div max, height |-> height, max |-> max]
      /\ scroll' = IF target >= 0 THEN Normalized(target, max) ELSE at
      /\ target' = -1
  BY DEF LaidOut, Room
<1>3. /\ \A i \in 0..n : SumTo(i) \in Nat
      /\ Content \in Nat /\ \A i, j \in 0..n : i <= j => SumTo(i) <= SumTo(j)
  <2>1. \A i \in 0..n : SumTo(i) \in Nat
    BY <1>1, SumsOf DEF SumTo
  <2>2. n \in 0..n
    BY <1>1
  <2>3. \A i, j \in 0..n : i <= j => SumTo(i) <= SumTo(j)
    BY <1>1, SumsGrow DEF SumTo
  <2> QED
    BY <2>1, <2>2, <2>3 DEF Content
<1>4. max \in Nat
  BY <1>1, <1>3 DEF Room
<1>5. max > 0 => height \in Nat /\ height < ViewHeight
  <2> SUFFICES ASSUME max > 0 PROVE height \in Nat /\ height < ViewHeight
    OBVIOUS
  <2>1. Content > ViewHeight /\ ViewHeight > 0
    BY <1>1, <1>3 DEF Room
  <2>2. share \in Nat /\ share < ViewHeight
    BY <1>1, <1>3, <2>1, ShareIsLess
  <2> HIDE DEF share
  <2> QED
    BY <1>1, <2>2
<1> HIDE DEF height
<1>6. ASSUME max > 0 PROVE ((ViewHeight - height) * at) \div max \in Nat
  <2>1. ViewHeight - height \in Nat
    BY <1>1, <1>5, <1>6
  <2>2. (ViewHeight - height) * at \in Nat
    BY <2>1
  <2> QED
    BY <1>4, <1>6, <2>2, ListDivides
<1> HIDE DEF max
<1>7. /\ bar' \in [y : Nat, height : Nat, max : Nat] /\ bar'.height < ViewHeight /\ bar'.max = max
      /\ bar'.max > 0 => bar'.y = ((ViewHeight - bar'.height) * at) \div bar'.max
  <2>1. CASE max = 0
    BY <1>1, <1>2, <2>1
  <2>2. CASE max # 0
    <3>1. max > 0
      BY <1>4, <2>2
    <3>2. bar' = [y |-> ((ViewHeight - height) * at) \div max, height |-> height, max |-> max]
      BY <1>2, <2>2
    <3> QED
      BY <1>4, <1>5, <1>6, <3>1, <3>2
  <2> QED
    BY <2>1, <2>2
<1>8. scroll' \in Int /\ target' \in Int
  BY <1>1, <1>2, <1>4, NormalizedWithin
<1>9. ASSUME NEW i \in DOMAIN items, SumTo(i - 1) - at < ViewHeight, SumTo(i) - at > 0
      PROVE  drawn'.first > 0 /\ i \in drawn'.first..drawn'.last
  <2>1. i \in S /\ S \subseteq Nat /\ T \subseteq Nat
    BY <1>1, <1>9
  <2> HIDE DEF S
  <2>2. first \in S /\ first <= i
    BY <2>1, LeastIsLeast
  <2> HIDE DEF first
  <2>3. first \in Nat /\ first > 0
    BY <1>1, <2>2 DEF S
  <2>4. i <= last
    <3>1. CASE T = {}
      <4>1. last = n
        BY <3>1 DEF Least
      <4> QED
        BY <1>1, <4>1
    <3>2. CASE T # {}
      <4>1. last \in T
        BY <2>1, <3>2, LeastIsLeast
      <4> HIDE DEF last
      <4>2. last \in 1..n /\ SumTo(last) - at > ViewHeight
        BY <1>1, <4>1
      <4> SUFFICES ASSUME last < i PROVE FALSE
        BY <1>1, <4>2
      <4>3. i - 1 \in 0..n /\ last \in 0..n /\ last <= i - 1
        BY <1>1, <4>2
      <4>4. SumTo(last) <= SumTo(i - 1) /\ SumTo(last) \in Nat /\ SumTo(i - 1) \in Nat
        BY <1>3, <4>3
      <4> QED
        BY <1>1, <1>9, <4>2, <4>4
    <3> QED
      BY <3>1, <3>2
  <2>5. last \in Nat
    <3>1. CASE T = {}
      BY <1>1, <3>1 DEF Least
    <3>2. CASE T # {}
      <4>1. last \in T
        BY <2>1, <3>2, LeastIsLeast
      <4> QED
        BY <2>1, <4>1
    <3> QED
      BY <3>1, <3>2
  <2> HIDE DEF last, T
  <2>6. drawn'.first = first /\ drawn'.last = last
    BY <1>2 DEF first, last, S, T
  <2> QED
    BY <1>1, <2>2, <2>3, <2>4, <2>5, <2>6
<1>10. /\ Room' = Room
       /\ \A i : SumTo(i)' = SumTo(i)
  BY DEF Room, Content, SumTo
<1>11. Shown(at)'
  <2>1. bar'.max = Room'
    BY <1>7, <1>10 DEF max
  <2>2. tops' = [i \in DOMAIN items' |-> SumTo(i - 1)' - at]
    BY <1>2, <1>10
  <2>3. \A i \in DOMAIN items' :
          SumTo(i - 1)' - at < ViewHeight /\ SumTo(i)' - at > 0 =>
              drawn'.first > 0 /\ i \in drawn'.first..drawn'.last
    BY <1>9, <1>10
  <2> QED
    BY <1>7, <2>1, <2>2, <2>3 DEF Shown
<1> QED
  BY <1>7, <1>8, <1>11


(* Where the bar is and back again is no further than the two roundings.   *)
LEMMA ThereAndBack ==
    ASSUME NEW s \in Nat, NEW h \in Nat, NEW max \in Nat, h > 0, max > 0, s <= max,
           NEW b \in Nat, b = (h * s) \div max, NEW t \in Nat, t = (b * max) \div h
    PROVE  t \in 0..max /\ (s - t) * h \in 0..(max + h)
<1> DEFINE r == (h * s) % max
           q == (b * max) % h
<1>1. h * s \in Nat /\ b * max \in Nat
  OBVIOUS
<1>2. r \in 0..(max - 1) /\ h * s = max * b + r
  <2> DEFINE w == h * s
  <2>1. w \in Nat
    BY <1>1
  <2> HIDE DEF w
  <2>2. w % max \in 0..(max - 1) /\ w = max * (w \div max) + (w % max)
    BY <2>1, ListDivides
  <2> QED
    BY <2>2 DEF w
<1>3. q \in 0..(h - 1) /\ b * max = h * t + q
  <2> DEFINE w == b * max
  <2>1. w \in Nat
    BY <1>1
  <2> HIDE DEF w
  <2>2. w % h \in 0..(h - 1) /\ w = h * (w \div h) + (w % h)
    BY <2>1, ListDivides
  <2> QED
    BY <2>2 DEF w
<1> HIDE DEF r, q
<1>4. h * s = h * t + (q + r)
  <2>1. max * b = b * max
    OBVIOUS
  <2> QED
    BY <1>2, <1>3, <2>1
<1>5. (s - t) * h = q + r
  <2>1. (s - t) * h = h * s - h * t
    OBVIOUS
  <2>2. h * t \in Nat
    OBVIOUS
  <2> QED
    BY <1>1, <1>2, <1>3, <1>4, <2>1, <2>2
<1>6. t <= s
  <2> SUFFICES ASSUME t > s PROVE FALSE
    OBVIOUS
  <2>1. PICK d \in Nat : t = s + d /\ d > 0
    <3>1. t - s \in Nat /\ t = s + (t - s) /\ t - s > 0
      OBVIOUS
    <3> QED
      BY <3>1
  <2>2. h * t = h * s + h * d /\ h * d > 0 /\ h * d \in Nat
    BY <2>1
  <2> QED
    BY <1>1, <1>2, <1>3, <1>4, <2>2
<1> QED
  BY <1>2, <1>3, <1>5, <1>6

LEMMA ListStarts == ListViewInit => ListInv
  BY ListViewAssumption DEF ListViewInit, ListInv

LEMMA LaidOutKeeps ==
    ASSUME ListInv, NEW at \in Nat, at <= bar.max, LaidOut(at), UNCHANGED items,
           frames' = (IF frames = 2 THEN 2 ELSE frames + 1), grip' \in Int
    PROVE  ListInv'
<1>1. /\ Shown(at)' /\ scroll' \in Int /\ target' \in Int
      /\ bar' \in [y : Nat, height : Nat, max : Nat] /\ bar'.height < ViewHeight
  BY LaidOutShows
<1>2. frames' = 2 => bar'.max = bar.max
  <2>1. frames' = 2 => frames > 0
    BY DEF ListInv
  <2>2. frames > 0 => bar.max = Room
    BY DEF ListInv, Shown
  <2>3. bar'.max = Room' /\ Room' = Room
    BY <1>1 DEF Shown, Room, Content, SumTo
  <2> QED
    BY <2>1, <2>2, <2>3
<1>3. frames' \in 0..2 /\ items' \in Seq(Labels)
  BY DEF ListInv
<1>4. frames' = 2 => at <= bar'.max
  BY <1>2
<1> QED
  BY <1>1, <1>3, <1>4 DEF ListInv

LEMMA ListFrameKeeps ==
    ASSUME ListInv, NEW y \in Int, NEW column \in BOOLEAN, NEW left \in BOOLEAN, NEW wheel \in Int,
           ListFrame(y, column, left, wheel)
    PROVE  ListInv'
<1>1. /\ ScrollAfter(y, column, left, wheel) \in 0..bar.max
      /\ GripAfter(y, column, left) \in Int
  BY ScrollIsInRange
<1>2. /\ LaidOut(ScrollAfter(y, column, left, wheel)) /\ grip' = GripAfter(y, column, left)
      /\ frames' = (IF frames = 2 THEN 2 ELSE frames + 1) /\ UNCHANGED items
  BY DEF ListFrame
<1>3. PICK at \in 0..bar.max : LaidOut(at)
  BY <1>1, <1>2
<1>4. at \in Nat /\ at <= bar.max
  BY <1>3 DEF ListInv
<1> QED
  BY <1>1, <1>2, <1>3, <1>4, LaidOutKeeps

LEMMA ReplacedKeeps ==
    ASSUME ListInv, NEW by \in Seq(Labels), Replaced(by)
    PROVE  ListInv'
<1>1. /\ items' = by /\ frames' = 0
      /\ UNCHANGED <<scroll, grip, bar, target>>
  BY DEF Replaced, Scripted
<1> QED
  BY <1>1 DEF ListInv

LEMMA ListStepKeeps == ListInv /\ [ListViewNext]_listVars => ListInv'
<1> SUFFICES ASSUME ListInv, [ListViewNext]_listVars PROVE ListInv'
  OBVIOUS
<1>0. ViewHeight \in Nat /\ items \in Seq(Labels)
  BY ListViewAssumption DEF ListInv
<1>1. ASSUME NEW text \in Labels, AddItem(text) PROVE ListInv'
  <2>1. Append(items, text) \in Seq(Labels)
    BY <1>0
  <2> QED
    BY <1>1, <2>1, ReplacedKeeps DEF AddItem
<1>2. CASE ClearItems
  <2>1. <<>> \in Seq(Labels)
    OBVIOUS
  <2> QED
    BY <1>2, <2>1, ReplacedKeeps DEF ClearItems
<1>3. ASSUME UNCHANGED <<items, frames, scroll, grip, tops, drawn, bar>>, target' \in Int
      PROVE  ListInv'
  <2>1. \A at : Shown(at)' <=> Shown(at)
    BY <1>3 DEF Shown, Room, Content, SumTo
  <2> QED
    BY <1>3, <2>1 DEF ListInv
<1>4. ASSUME NEW n \in {1, ViewHeight}, SetScrollY(n) PROVE ListInv'
  BY <1>0, <1>3, <1>4 DEF SetScrollY, Scripted
<1>5. ASSUME NEW y \in -1..ViewHeight, NEW column \in BOOLEAN, NEW left \in BOOLEAN,
             ListFrame(y, column, left, 0)
      PROVE  ListInv'
  <2>1. y \in Int /\ 0 \in Int
    BY <1>0
  <2> QED
    BY <1>5, <2>1, ListFrameKeeps
<1>6. ASSUME NEW left \in BOOLEAN, NEW wheel \in {-1, 1}, ListFrame(1, FALSE, left, wheel)
      PROVE  ListInv'
  <2> DEFINE no == FALSE
  <2>0. ListFrame(1, no, left, wheel)
    BY <1>6
  <2>1. no \in BOOLEAN /\ wheel \in Int /\ 1 \in Int
    BY <1>6
  <2> HIDE DEF no
  <2> QED
    BY <2>0, <2>1, ListFrameKeeps
<1>7. ASSUME NEW left \in BOOLEAN, HiddenFrame(left) PROVE ListInv'
  <2>1. target' \in Int
    BY <1>7 DEF HiddenFrame, ListInv
  <2> QED
    BY <1>3, <1>7, <2>1 DEF HiddenFrame
<1>8. CASE UNCHANGED listVars
  <2>1. target' \in Int
    BY <1>8 DEF listVars, ListInv
  <2> QED
    BY <1>3, <1>8, <2>1 DEF listVars
<1> QED
  BY <1>1, <1>2, <1>4, <1>5, <1>6, <1>7, <1>8 DEF ListViewNext

LEMMA ListIsWhole == ListInv => WrapKeepsText /\ VisibleItemsDrawn /\ NoGapStays
<1> SUFFICES ASSUME ListInv PROVE WrapKeepsText /\ VisibleItemsDrawn /\ NoGapStays
  OBVIOUS
<1> DEFINE n == Len(items)
<1>1. /\ items \in Seq(Labels) /\ n \in Nat /\ DOMAIN items = 1..n /\ ViewHeight \in Nat
      /\ \A i \in 1..n : items[i] \in Labels
  <2>1. items \in Seq(Labels) /\ ViewHeight \in Nat
    BY ListViewAssumption DEF ListInv
  <2> QED
    BY <2>1, ElementOfSeq
<1>2. WrapKeepsText
  <2>1. ASSUME NEW i \in DOMAIN items PROVE items[i] \in Labels
    BY <1>1
  <2> QED
    BY <2>1, LabelKeepsText, Zenon DEF WrapKeepsText
<1>3. /\ SumTo(0) = 0
      /\ \A i \in 0..n : SumTo(i) \in Nat
      /\ \A i \in 1..n : SumTo(i) = SumTo(i - 1) + Heights[items[i]]
  BY <1>1, SumsOf DEF SumTo
<1>4. ASSUME NEW at \in Nat, Shown(at), NEW i \in 1..n
      PROVE  tops[i] = SumTo(i - 1) - at /\ tops[i] + Heights[items[i]] = SumTo(i) - at
  <2>1. tops[i] = SumTo(i - 1) - at
    BY <1>1, <1>4 DEF Shown
  <2>2. i \in 0..n /\ i - 1 \in 0..n
    BY <1>1
  <2>3. SumTo(i) = SumTo(i - 1) + Heights[items[i]] /\ SumTo(i - 1) \in Nat
        /\ Heights[items[i]] \in Nat
    BY <1>1, <1>3, <2>2, ItemsHaveHeights
  <2> QED
    BY <2>1, <2>3
<1>5. VisibleItemsDrawn
  <2> SUFFICES ASSUME frames > 0, NEW i \in DOMAIN items,
                      tops[i] < ViewHeight, tops[i] + Heights[items[i]] > 0
               PROVE  drawn.first > 0 /\ i \in drawn.first..drawn.last
    BY DEF VisibleItemsDrawn
  <2>1. PICK at \in Nat : Shown(at)
    BY DEF ListInv
  <2>2. SumTo(i - 1) - at < ViewHeight /\ SumTo(i) - at > 0
    BY <1>1, <1>4, <2>1
  <2> QED
    BY <2>1, <2>2 DEF Shown
<1>6. NoGapStays
  <2> SUFFICES ASSUME frames = 2, items # <<>>
               PROVE  /\ tops[1] <= 0
                      /\ tops[1] = 0 \/ tops[n] + Heights[items[n]] >= ViewHeight
    BY DEF NoGapStays
  <2>1. PICK at \in Nat : Shown(at) /\ at <= bar.max
    BY DEF ListInv
  <2>2. 1 \in 1..n /\ n \in 1..n
    BY <1>1
  <2>3. tops[1] = -at
    <3>1. tops[1] = SumTo(1 - 1) - at
      BY <1>4, <2>1, <2>2
    <3> QED
      BY <1>3, <3>1
  <2>4. tops[n] + Heights[items[n]] = Content - at
    BY <1>4, <2>1, <2>2 DEF Content
  <2>5. bar.max = Room /\ Content \in Nat
    BY <1>1, <1>3, <2>1 DEF Shown, Content
  <2>6. CASE Content > ViewHeight
    BY <1>1, <2>1, <2>3, <2>4, <2>5, <2>6 DEF Room
  <2>7. CASE ~(Content > ViewHeight)
    BY <2>1, <2>3, <2>5, <2>7 DEF Room
  <2> QED
    BY <2>6, <2>7
<1> QED
  BY <1>2, <1>5, <1>6

(* The step that takes hold of the bar.                                    *)
Grabs == grip < 0 /\ grip' >= 0 /\ frames = 2 /\ items # <<>> /\ tops[1] = -scroll
StaysPut ==
    (scroll + tops'[1]) * (ViewHeight - bar.height) \in 0..(bar.max + ViewHeight - bar.height)

LEMMA GrabStays ==
    ASSUME ListInv, NEW y \in Int, NEW column \in BOOLEAN, NEW left \in BOOLEAN, NEW wheel \in Int,
           ListFrame(y, column, left, wheel), Grabs
    PROVE  StaysPut
<1> DEFINE next == ScrollAfter(y, column, left, wheel)
           h == ViewHeight - bar.height
           gripped == GripAfter(y, column, left)
<1>1. /\ items \in Seq(Labels) /\ Len(items) \in Nat /\ 1 \in DOMAIN items
      /\ bar.y \in Nat /\ bar.height \in Nat /\ bar.max \in Nat
      /\ h \in Nat /\ h > 0 /\ ViewHeight \in Nat
  BY ListViewAssumption DEF ListInv, Grabs
<1>2. SumTo(0) = 0
  BY <1>1, SumsOf DEF SumTo
<1>3. PICK at \in Nat : Shown(at) /\ at <= bar.max
  BY DEF ListInv, Grabs
<1>4. scroll = at
  <2>1. tops[1] = SumTo(1 - 1) - at
    BY <1>1, <1>3 DEF Shown
  <2>2. tops[1] = -at /\ tops[1] = -scroll /\ scroll \in Int
    BY <1>2, <2>1 DEF Grabs, ListInv
  <2> QED
    BY <2>2
<1>5. next \in 0..bar.max
  BY ScrollIsInRange
<1>6. tops'[1] = -next
  <2>1. tops' = [i \in DOMAIN items |-> SumTo(i - 1) - next]
    BY DEF ListFrame, LaidOut
  <2> HIDE DEF next
  <2>2. tops'[1] = SumTo(1 - 1) - next
    BY <1>1, <2>1
  <2> QED
    BY <1>1, <1>2, <1>5, <2>2
<1>7. gripped >= 0 /\ y - gripped = bar.y
  <2>1. gripped >= 0 /\ grip < 0
    BY DEF ListFrame, Grabs
  <2>2. gripped = -1 \/ gripped = y - bar.y \/ gripped = grip
    BY DEF GripAfter
  <2>3. grip \in Int
    BY DEF ListInv
  <2> HIDE DEF gripped
  <2>4. gripped = y - bar.y
    BY <2>1, <2>2, <2>3
  <2> QED
    BY <1>1, <2>1, <2>4
<1>8. next = Normalized(Div(bar.y * bar.max, h), bar.max)
  BY <1>7 DEF ScrollAfter
<1> HIDE DEF next
<1>9. (scroll + tops'[1]) * h \in 0..(bar.max + h)
  <2>1. CASE bar.max = 0
    <3>1. scroll = 0 /\ next = 0
      BY <1>3, <1>4, <1>5, <2>1
    <3>2. scroll + tops'[1] = 0
      BY <1>6, <3>1
    <3>3. 0 * h = 0
      BY <1>1
    <3> QED
      BY <1>1, <2>1, <3>2, <3>3
  <2>2. CASE bar.max > 0
    <3> DEFINE b == bar.y
               max == bar.max
               t == (b * max) \div h
    <3>1. b = (h * at) \div max
      BY <1>3, <2>2 DEF Shown
    <3> HIDE DEF h
    <3>2. b \in Nat /\ max \in Nat /\ b * max \in Nat /\ h \in Nat /\ h >= 1
      BY <1>1
    <3>3. t \in Nat
      <4> DEFINE w == b * max
      <4>1. w \in Nat
        BY <3>2
      <4> HIDE DEF w
      <4>2. w \div h \in Nat
        BY <3>2, <4>1, ListDivides
      <4> QED
        BY <4>2 DEF w
    <3>4. Div(b * max, h) = t
      <4> DEFINE w == b * max
      <4>1. w \in Int /\ w >= 0
        BY <3>2
      <4> HIDE DEF w
      <4>2. Div(w, h) = w \div h
        BY <3>2, <4>1, DivIsInt
      <4> QED
        BY <4>2 DEF w
    <3> HIDE DEF b, t, max
    <3>5. max > 0 /\ at <= max
      BY <1>3, <2>2 DEF max
    <3>6. t = (b * max) \div h
      BY DEF t
    <3>7. t \in 0..max /\ (at - t) * h \in 0..(max + h)
      BY <3>1, <3>2, <3>3, <3>5, <3>6, ThereAndBack
    <3>8. next = Normalized(t, max)
      BY <1>8, <3>4 DEF b, max
    <3>9. next = t
      BY <3>2, <3>7, <3>8, NormalizedWithin
    <3>10. scroll + tops'[1] = at - t
      BY <1>4, <1>6, <3>3, <3>9
    <3> QED
      BY <3>7, <3>10 DEF max
  <2> QED
    BY <1>1, <2>1, <2>2
<1>10. bar.max + ViewHeight - bar.height = bar.max + h
  BY <1>1
<1> QED
  BY <1>9, <1>10 DEF StaysPut

LEMMA HoldIsHeld == ListInv /\ [ListViewNext]_listVars => [Grabs => StaysPut]_listVars
<1> SUFFICES ASSUME ListInv, ListViewNext, Grabs PROVE StaysPut
  OBVIOUS
<1>0. ViewHeight \in Nat
  BY ListViewAssumption
<1>1. ASSUME grip' = grip PROVE FALSE
  BY <1>1 DEF Grabs, ListInv
<1>2. ASSUME NEW y \in -1..ViewHeight, NEW column \in BOOLEAN, NEW left \in BOOLEAN,
             ListFrame(y, column, left, 0)
      PROVE  StaysPut
  <2>1. y \in Int /\ 0 \in Int
    BY <1>0
  <2> QED
    BY <1>2, <2>1, GrabStays
<1>3. ASSUME NEW left \in BOOLEAN, NEW wheel \in {-1, 1}, ListFrame(1, FALSE, left, wheel)
      PROVE  StaysPut
  <2> DEFINE no == FALSE
  <2>0. ListFrame(1, no, left, wheel)
    BY <1>3
  <2>1. no \in BOOLEAN /\ wheel \in Int /\ 1 \in Int
    BY <1>3
  <2> HIDE DEF no
  <2> QED
    BY <2>0, <2>1, GrabStays
<1> QED
  BY <1>1, <1>2, <1>3
     DEF ListViewNext, AddItem, ClearItems, Replaced, SetScrollY, Scripted, HiddenFrame

(* Whatever the labels say and however long the list is: wrapping keeps    *)
(* the text, every item in sight is drawn, no gap outlives a frame, and    *)
(* taking hold of the bar does not move the list.                          *)
THEOREM ListIsKept == ListViewSpec => ListKept
<1>1. GrabHolds <=> [][Grabs => StaysPut]_listVars
  BY DEF GrabHolds, Grabs, StaysPut
<1> QED
  BY <1>1, ListStarts, ListStepKeeps, ListIsWhole, HoldIsHeld, PTL DEF ListViewSpec, ListKept

-----------------------------------------------------------------------------
(* The parts of a window.  First the lists of the children, and of the     *)
(* calls of Update that are left: everything of a set, each once.          *)
IsListOf(list, C) ==
    /\ list \in Seq(C)
    /\ \A c \in C : \E i \in 1..Len(list) : list[i] = c
    /\ \A i, j \in 1..Len(list) : list[i] = list[j] => i = j

LEMMA ListedIsMember ==
    ASSUME NEW C, NEW list, IsListOf(list, C), NEW i \in 1..Len(list)
    PROVE  list[i] \in C
<1>1. list \in Seq(C)
  BY DEF IsListOf
<1> QED
  BY <1>1, ElementOfSeq

LEMMA SetIsListed ==
    ASSUME NEW C, IsFiniteSet(C)
    PROVE  IsListOf(SetToSeq(C), C)
<1> DEFINE n == Cardinality(C)
<1>1. n \in Nat
  BY FS_CardinalityType
<1>2. \E f \in [1..n -> C] : IsInjective(f)
  <2>1. ExistsBijection(1..n, C)
    BY FS_CardinalityType
  <2>2. PICK f : f \in Bijection(1..n, C)
    BY <2>1 DEF ExistsBijection
  <2>3. f \in [1..n -> C] /\ IsInjective(f)
    BY <2>2 DEF Bijection, Injection, IsInjective
  <2> QED
    BY <2>3
<1> DEFINE f == SetToSeq(C)
<1>3. f \in [1..n -> C] /\ IsInjective(f)
  BY <1>2 DEF SetToSeq
<1> HIDE DEF f
<1>4. f \in Seq(C) /\ Len(f) = n
  BY <1>1, <1>3
<1>5. f \in Injection(1..n, C)
  BY <1>3 DEF Injection, IsInjective
<1>6. f \in Surjection(1..n, C)
  <2>1. IsFiniteSet(1..n) /\ Cardinality(1..n) = n
    BY <1>1, FS_Interval
  <2> QED
    BY <1>5, <2>1, FS_Injection
<1> QED
  BY <1>3, <1>4, <1>6 DEF IsListOf, Surjection, IsInjective, f

LEMMA AppendIsListed ==
    ASSUME NEW C, NEW list, IsListOf(list, C), NEW c, c \notin C
    PROVE  IsListOf(Append(list, c), C \cup {c})
<1> DEFINE n == Len(list)
           more == Append(list, c)
<1>1. list \in Seq(C) /\ n \in Nat
  BY DEF IsListOf
<1>2. \A i \in 1..n : list[i] \in C
  BY ListedIsMember
<1>3. /\ Len(more) = n + 1 /\ more[n + 1] = c
      /\ \A i \in 1..n : more[i] = list[i]
  BY <1>1
<1>4. more \in Seq(C \cup {c})
  <2>1. list \in Seq(C \cup {c})
    BY <1>1
  <2> QED
    BY <2>1
<1> HIDE DEF more, n
<1>5. \A i \in 1..(n + 1) : i \in 1..n \/ i = n + 1
  BY <1>1
<1>6. ASSUME NEW d \in C \cup {c} PROVE \E i \in 1..(n + 1) : more[i] = d
  <2>1. 1..n \subseteq 1..(n + 1) /\ n + 1 \in 1..(n + 1)
    BY <1>1
  <2>2. CASE d = c
    BY <1>3, <2>1, <2>2
  <2>3. CASE d \in C
    <3>1. PICK i \in 1..n : list[i] = d
      BY <2>3 DEF IsListOf, n
    <3> QED
      BY <1>3, <2>1, <3>1
  <2> QED
    BY <2>2, <2>3
<1>7. ASSUME NEW i \in 1..(n + 1), NEW j \in 1..(n + 1), more[i] = more[j] PROVE i = j
  <2>1. \A k, l \in 1..n : list[k] = list[l] => k = l
    BY DEF IsListOf, n
  <2> QED
    BY <1>2, <1>3, <1>5, <1>7, <2>1
<1> QED
  BY <1>3, <1>4, <1>6, <1>7 DEF IsListOf, more

LEMMA WithoutOne ==
    ASSUME NEW C, NEW list \in Seq(C), NEW k \in 1..Len(list)
    PROVE  /\ RemoveAt(list, k) \in Seq(C) /\ Len(RemoveAt(list, k)) = Len(list) - 1
           /\ \A i \in 1..(Len(list) - 1) :
                 RemoveAt(list, k)[i] = IF i < k THEN list[i] ELSE list[i + 1]
<1> DEFINE n == Len(list)
           a == SubSeq(list, 1, k - 1)
           b == SubSeq(list, k + 1, n)
<1>1. n \in Nat /\ k \in Nat /\ k >= 1 /\ k <= n /\ \A i \in 1..n : list[i] \in C
  OBVIOUS
<1>2. a \in Seq(C) /\ Len(a) = k - 1 /\ \A i \in 1..(k - 1) : a[i] = list[i]
  <2>1. \A i \in 1..(k - 1) : list[i] \in C
    BY <1>1
  <2> QED
    BY <1>1, <2>1, SubSeqProperties
<1>3. b \in Seq(C) /\ Len(b) = n - k /\ \A i \in 1..(n - k) : b[i] = list[k + i]
  <2>1. \A i \in (k + 1)..n : list[i] \in C
    BY <1>1
  <2>2. k + 1 \in Int /\ n \in Int
    BY <1>1
  <2>3. /\ b \in Seq(C) /\ Len(b) = IF k + 1 <= n THEN n - (k + 1) + 1 ELSE 0
        /\ \A i \in 1..(n - (k + 1) + 1) : b[i] = list[(k + 1) + i - 1]
    BY <2>1, <2>2, SubSeqProperties
  <2> QED
    BY <1>1, <2>3
<1> HIDE DEF a, b
<1>4. /\ a \o b \in Seq(C) /\ Len(a \o b) = n - 1
      /\ \A i \in 1..(n - 1) : (a \o b)[i] = IF i <= k - 1 THEN a[i] ELSE b[i - (k - 1)]
  <2>1. /\ a \o b \in Seq(C) /\ Len(a \o b) = Len(a) + Len(b)
        /\ \A i \in 1..(Len(a) + Len(b)) :
              (a \o b)[i] = IF i <= Len(a) THEN a[i] ELSE b[i - Len(a)]
    BY <1>2, <1>3, ConcatProperties
  <2>2. Len(a) + Len(b) = n - 1
    BY <1>1, <1>2, <1>3
  <2> QED
    BY <1>2, <2>1, <2>2
<1>5. ASSUME NEW i \in 1..(n - 1) PROVE (a \o b)[i] = IF i < k THEN list[i] ELSE list[i + 1]
  <2>1. CASE i < k
    <3>1. i \in 1..(k - 1)
      BY <1>1, <2>1
    <3> QED
      BY <1>1, <1>2, <1>4, <2>1, <3>1
  <2>2. CASE ~(i < k)
    <3>1. i - (k - 1) \in 1..(n - k) /\ ~(i <= k - 1) /\ k + (i - (k - 1)) = i + 1
      BY <1>1, <2>2
    <3>2. (a \o b)[i] = b[i - (k - 1)]
      BY <1>4, <3>1
    <3> QED
      BY <1>3, <2>2, <3>1, <3>2
  <2> QED
    BY <2>1, <2>2
<1>6. RemoveAt(list, k) = a \o b
  BY DEF RemoveAt, a, b
<1> QED
  BY <1>4, <1>5, <1>6

LEMMA RemovedIsListed ==
    ASSUME NEW C, NEW list, IsListOf(list, C), NEW k \in 1..Len(list)
    PROVE  IsListOf(RemoveAt(list, k), C \ {list[k]})
<1> DEFINE n == Len(list)
           less == RemoveAt(list, k)
           from(i) == IF i < k THEN i ELSE i + 1
<1>1. list \in Seq(C) /\ n \in Nat /\ k \in 1..n
  BY DEF IsListOf
<1>2. \A i \in 1..n : list[i] \in C
  BY ListedIsMember
<1>3. Len(less) = n - 1 /\ \A i \in 1..(n - 1) : less[i] = list[from(i)]
  <2>1. /\ Len(less) = n - 1
        /\ \A i \in 1..(n - 1) : less[i] = IF i < k THEN list[i] ELSE list[i + 1]
    BY <1>1, WithoutOne
  <2> HIDE DEF less
  <2> QED
    BY <2>1
<1>4. less \in Seq(C)
  BY <1>1, WithoutOne
<1>5. \A i \in 1..(n - 1) : from(i) \in 1..n /\ from(i) # k
  BY <1>1
<1>6. \A i, j \in 1..(n - 1) : from(i) = from(j) => i = j
  BY <1>1
<1>7. \A j \in 1..n : j # k => \E i \in 1..(n - 1) : from(i) = j
  <2> SUFFICES ASSUME NEW j \in 1..n, j # k PROVE \E i \in 1..(n - 1) : from(i) = j
    OBVIOUS
  <2>1. CASE j < k
    <3>1. j \in 1..(n - 1) /\ from(j) = j
      BY <1>1, <2>1
    <3> QED
      BY <3>1
  <2>2. CASE j > k
    <3>1. j - 1 \in 1..(n - 1) /\ from(j - 1) = j
      BY <1>1, <2>2
    <3> QED
      BY <3>1
  <2> QED
    BY <1>1, <2>1, <2>2
<1> HIDE DEF less, from, n
<1>8. \A i, j \in 1..n : list[i] = list[j] => i = j
  BY DEF IsListOf, n
<1>9. \A i \in 1..(n - 1) : less[i] \in C \ {list[k]}
  BY <1>1, <1>2, <1>3, <1>5, <1>8, Zenon
<1>10. less \in Seq(C \ {list[k]})
  <2>1. less = [i \in 1..(n - 1) |-> less[i]] /\ n - 1 \in Nat
    BY <1>1, <1>3, <1>4
  <2>2. \A i \in 1..(n - 1) : less[i] \in C \ {list[k]}
    BY <1>9
  <2> QED
    BY <2>1, <2>2, SeqDef
<1>11. ASSUME NEW c \in C \ {list[k]} PROVE \E i \in 1..(n - 1) : less[i] = c
  <2>1. PICK j \in 1..n : list[j] = c
    BY DEF IsListOf, n
  <2>2. PICK i \in 1..(n - 1) : from(i) = j
    BY <1>7, <2>1
  <2> QED
    BY <1>3, <2>1, <2>2
<1>12. \A i, j \in 1..(n - 1) : less[i] = less[j] => i = j
  BY <1>3, <1>5, <1>6, <1>8, Zenon
<1> QED
  BY <1>3, <1>10, <1>11, <1>12 DEF IsListOf, less

LEMMA HeadIsListed ==
    ASSUME NEW C, NEW list, IsListOf(list, C), list # <<>>
    PROVE  Head(list) \in C /\ IsListOf(Tail(list), C \ {Head(list)})
<1>1. list \in Seq(C) /\ Len(list) \in Nat /\ Len(list) # 0
  BY DEF IsListOf
<1>2. 1 \in 1..Len(list)
  BY <1>1
<1>3. Head(list) = list[1] /\ list[1] \in C
  BY <1>1, <1>2, ListedIsMember
<1>4. Tail(list) = RemoveAt(list, 1)
  <2> DEFINE n == Len(list)
             less == RemoveAt(list, 1)
  <2>0. /\ less \in Seq(C) /\ Len(less) = n - 1
        /\ \A i \in 1..(n - 1) : less[i] = IF i < 1 THEN list[i] ELSE list[i + 1]
    BY <1>1, <1>2, WithoutOne
  <2> HIDE DEF less
  <2>1. Len(less) = n - 1 /\ \A i \in 1..(n - 1) : less[i] = list[i + 1]
    BY <1>1, <2>0
  <2>2. less \in Seq(C) /\ Tail(list) \in Seq(C)
    BY <1>1, <2>0
  <2>3. Len(Tail(list)) = n - 1 /\ \A i \in 1..(n - 1) : Tail(list)[i] = list[i + 1]
    BY <1>1
  <2>4. Len(less) = Len(Tail(list)) /\ \A i \in 1..Len(less) : less[i] = Tail(list)[i]
    BY <2>1, <2>3
  <2>5. less = Tail(list)
    BY <2>2, <2>4, SeqEqual
  <2> QED
    BY <2>5 DEF less
<1>5. IsListOf(RemoveAt(list, 1), C \ {list[1]})
  BY <1>2, RemovedIsListed
<1> QED
  BY <1>3, <1>4, <1>5

LEMMA JoinIsListed ==
    ASSUME NEW C, NEW list, IsListOf(list, C), NEW D, NEW behind, IsListOf(behind, D), C \cap D = {}
    PROVE  IsListOf(list \o behind, C \cup D)
<1> DEFINE n == Len(list)
           m == Len(behind)
           all == list \o behind
<1>1. list \in Seq(C) /\ behind \in Seq(D) /\ n \in Nat /\ m \in Nat
  BY DEF IsListOf
<1>2. (\A i \in 1..n : list[i] \in C) /\ (\A i \in 1..m : behind[i] \in D)
  BY ListedIsMember
<1>3. Len(all) = n + m /\ \A i \in 1..(n + m) : all[i] = IF i <= n THEN list[i] ELSE behind[i - n]
  BY <1>1
<1>4. all \in Seq(C \cup D)
  <2>1. list \in Seq(C \cup D) /\ behind \in Seq(C \cup D)
    BY <1>1
  <2> QED
    BY <2>1
<1> HIDE DEF all, n, m
<1>5. \A i \in 1..(n + m) : \/ i \in 1..n /\ all[i] = list[i]
                            \/ i - n \in 1..m /\ all[i] = behind[i - n]
  BY <1>1, <1>3
<1>6. (\A i, j \in 1..n : list[i] = list[j] => i = j) /\ (\A i, j \in 1..m : behind[i] = behind[j] => i = j)
  BY DEF IsListOf, n, m
<1>7. ASSUME NEW c \in C \cup D PROVE \E i \in 1..(n + m) : all[i] = c
  <2>1. CASE c \in C
    <3>1. PICK i \in 1..n : list[i] = c
      BY <2>1 DEF IsListOf, n
    <3>2. i \in 1..(n + m) /\ i <= n
      BY <1>1
    <3> QED
      BY <1>3, <3>1, <3>2
  <2>2. CASE c \in D
    <3>1. PICK i \in 1..m : behind[i] = c
      BY <2>2 DEF IsListOf, m
    <3>2. n + i \in 1..(n + m) /\ ~(n + i <= n) /\ (n + i) - n = i
      BY <1>1
    <3> QED
      BY <1>3, <3>1, <3>2
  <2> QED
    BY <2>1, <2>2
<1>8. ASSUME NEW i \in 1..(n + m), NEW j \in 1..(n + m), all[i] = all[j] PROVE i = j
  <2>1. CASE i \in 1..n /\ all[i] = list[i]
    <3>1. j \in 1..n /\ all[j] = list[j]
      BY <1>2, <1>5, <1>8, <2>1
    <3> QED
      BY <1>6, <1>8, <2>1, <3>1
  <2>2. CASE i - n \in 1..m /\ all[i] = behind[i - n]
    <3>1. j - n \in 1..m /\ all[j] = behind[j - n]
      BY <1>2, <1>5, <1>8, <2>2
    <3>2. i - n = j - n
      BY <1>6, <1>8, <2>2, <3>1
    <3> QED
      BY <1>1, <3>2
  <2> QED
    BY <1>5, <2>1, <2>2
<1> QED
  BY <1>3, <1>4, <1>7, <1>8 DEF IsListOf, all

(* One frame.  Whatever Update has been called for (gone) is where the     *)
(* rectangle of its parent puts it, the calls that are left are those of   *)
(* its other children, and nothing is called twice.                        *)
Rect == [x : Int, width : Int]
Look == [docking : Dockings, width : Int, visible : BOOLEAN, x : Int, grow : Int]
Shows(o) == o \in Panels => look[o].visible
ChildrenOf(p) == {c \in Objects : parent[c] = p}

Rooted == \A S \in SUBSET Objects : S # {} => \E o \in S : parent[o] \notin S
Family ==
    /\ parent \in [Objects -> Objects \cup {NoParent}] /\ parent[Window] = NoParent
    /\ children \in [Objects -> Seq(Objects)]
    /\ \A p \in Objects : IsListOf(children[p], ChildrenOf(p))
    /\ Rooted

LayoutInv ==
    /\ Family /\ look \in [Objects -> Look] /\ rect \in [Objects -> Rect] /\ shown \in BOOLEAN
    /\ DockedKept

Reached(gone, left) ==
    /\ gone \subseteq Objects /\ left \subseteq Objects /\ gone \cap left = {}
    /\ Window \in gone \cup left
    /\ \A o \in gone \cup left : o = Window \/ parent[o] \in gone
    /\ \A o \in gone \ Leaves : Shows(o) => ChildrenOf(o) \subseteq gone \cup left
LaidOutTo(rects, gone) ==
    /\ rects \in [Objects -> Rect]
    /\ \A o \in gone : Shows(o) => rects[o] = Placed(rects, o)
Calls == [rects : [Objects -> Rect], todo : Seq(Objects)]
After(n, calls) ==
    \E gone, left \in SUBSET Objects :
        /\ Reached(gone, left) /\ LaidOutTo(calls.rects, gone) /\ IsListOf(calls.todo, left)
        /\ Cardinality(gone) = n \/ left = {}

LEMMA PlacedIsRect ==
    ASSUME look \in [Objects -> Look], Family, NEW rects \in [Objects -> Rect], NEW o \in Objects
    PROVE  Placed(rects, o) \in Rect
<1> DEFINE p == parent[o]
           x == X(rects, p)
           wide == WideIn(rects, p)
<1>1. p \in Objects \cup {NoParent}
  BY DEF Family
<1>2. /\ \A q \in Objects : look[q].x \in Int /\ look[q].grow \in Int /\ look[q].width \in Int
      /\ \A q \in Objects : rects[q].x \in Int /\ rects[q].width \in Int
      /\ Margins.left \in Int /\ Margins.right \in Int /\ ScreenWidth \in Int
  <2>1. \A q \in Objects : look[q] \in Look /\ rects[q] \in Rect
    OBVIOUS
  <2> QED
    BY <2>1, LayoutAssumption DEF Look, Rect
<1>3. x \in Int /\ wide \in Int
  BY <1>1, <1>2 DEF X, WideIn
<1> HIDE DEF x, wide
<1> DEFINE docking == look[o].docking
           width == IF {"left", "right"} \subseteq docking
                    THEN (x + wide) - Margins.right - (x + Margins.left) ELSE OwnWidth(o)
           at == IF "center" \in XDocking(o) THEN x + ((x + wide) - x) \div 2 - (width \div 2)
                 ELSE IF "right" \in XDocking(o) THEN (x + wide) - Margins.right - width
                 ELSE x + Margins.left
<1>a. OwnWidth(o) \in Int
  BY <1>2, LayoutAssumption DEF OwnWidth
<1>4. width \in Int
  BY <1>2, <1>3, <1>a
<1> HIDE DEF width
<1>5. at \in Int
  BY <1>2, <1>3, <1>4
<1>6. Placed(rects, o) = [width |-> width, x |-> at]
  BY Zenon DEF Placed, width, at, x, wide, docking, p
<1> HIDE DEF at
<1> QED
  BY <1>4, <1>5, <1>6 DEF Rect

(* An object keeps its margin to the edges it is docked to.                *)
LEMMA PlacedIsDocked ==
    ASSUME look \in [Objects -> Look], Family, NEW rects \in [Objects -> Rect], NEW o \in Objects,
           "center" \notin look[o].docking, rects[o] = Placed(rects, o)
    PROVE  /\ "left" \in look[o].docking => rects[o].x = X(rects, parent[o]) + Margins.left
           /\ DockedRight(o) =>
                 rects[o].x + rects[o].width
                     = (X(rects, parent[o]) + WideIn(rects, parent[o])) - Margins.right
<1> DEFINE p == parent[o]
           x == X(rects, p)
           wide == WideIn(rects, p)
<1>1. p \in Objects \cup {NoParent}
  BY DEF Family
<1>2. /\ \A q \in Objects : look[q].x \in Int /\ look[q].grow \in Int /\ look[q].width \in Int
      /\ \A q \in Objects : rects[q].x \in Int /\ rects[q].width \in Int
      /\ Margins.left \in Int /\ Margins.right \in Int /\ ScreenWidth \in Int
  <2>1. \A q \in Objects : look[q] \in Look /\ rects[q] \in Rect
    OBVIOUS
  <2> QED
    BY <2>1, LayoutAssumption DEF Look, Rect
<1>3. x \in Int /\ wide \in Int
  BY <1>1, <1>2 DEF X, WideIn
<1> HIDE DEF x, wide
<1> DEFINE docking == look[o].docking
           width == IF {"left", "right"} \subseteq docking
                    THEN (x + wide) - Margins.right - (x + Margins.left) ELSE OwnWidth(o)
           at == IF "center" \in XDocking(o) THEN x + ((x + wide) - x) \div 2 - width \div 2
                 ELSE IF "right" \in XDocking(o) THEN (x + wide) - Margins.right - width
                 ELSE x + Margins.left
<1>a. OwnWidth(o) \in Int
  BY <1>2, LayoutAssumption DEF OwnWidth
<1>4. width \in Int
  BY <1>2, <1>3, <1>a
<1>5. Placed(rects, o) = [width |-> width, x |-> at]
  BY Zenon DEF Placed, x, wide, p
<1>6. rects[o].width = width /\ rects[o].x = at
  BY <1>5
<1>7. {"left", "right"} \subseteq docking => width = (x + wide) - Margins.right - (x + Margins.left)
  OBVIOUS
\* A label lies at its left margin whatever it is docked to.
<1>8. ASSUME o \in Captions
      PROVE  /\ at = x + Margins.left
             /\ DockedRight(o) => at + width = (x + wide) - Margins.right
  <2>1. at = x + Margins.left
    BY <1>8 DEF XDocking
  <2>2. DockedRight(o) => width = (x + wide) - Margins.right - (x + Margins.left)
    BY <1>7, <1>8 DEF DockedRight
  <2> HIDE DEF width, at
  <2> QED
    BY <1>2, <1>3, <2>1, <2>2
<1>9. ASSUME o \notin Captions
      PROVE  /\ "left" \in docking => at = x + Margins.left
             /\ DockedRight(o) => at + width = (x + wide) - Margins.right
  <2>1. at = IF "right" \in docking THEN (x + wide) - Margins.right - width ELSE x + Margins.left
    BY <1>9 DEF XDocking
  <2> HIDE DEF width, at
  <2>2. CASE "right" \in docking
    <3>1. "left" \in docking => width = (x + wide) - Margins.right - (x + Margins.left)
      BY <1>7, <2>2
    <3> QED
      BY <1>2, <1>3, <1>4, <2>1, <2>2, <3>1
  <2> QED
    BY <2>1, <2>2 DEF DockedRight
<1> HIDE DEF width, at
<1>10. /\ "left" \in docking => rects[o].x = x + Margins.left
       /\ DockedRight(o) => rects[o].x + rects[o].width = (x + wide) - Margins.right
  BY <1>6, <1>8, <1>9
<1> QED
  BY <1>10 DEF x, wide

(* Where an object comes to lie is up to its parent alone.                 *)
LEMMA ParentPlaces ==
    ASSUME NEW rects, NEW others, NEW o,
           parent[o] = NoParent \/ rects[parent[o]] = others[parent[o]]
    PROVE  Placed(rects, o) = Placed(others, o)
<1>1. X(rects, parent[o]) = X(others, parent[o]) /\ WideIn(rects, parent[o]) = WideIn(others, parent[o])
  BY DEF X, WideIn
<1> QED
  BY <1>1, Zenon DEF Placed

LEMMA NobodyIsHisChild == Rooted => \A o \in Objects : parent[o] # o
<1> SUFFICES ASSUME Rooted, NEW o \in Objects, parent[o] = o PROVE FALSE
  OBVIOUS
<1>1. {o} \in SUBSET Objects /\ {o} # {}
  OBVIOUS
<1>2. \E q \in {o} : parent[q] \notin {o}
  BY <1>1 DEF Rooted
<1> QED
  BY <1>2

LEMMA UpdateIsTyped ==
    ASSUME look \in [Objects -> Look], Family, NEW calls \in Calls
    PROVE  Update(calls) \in Calls
<1>1. CASE calls.todo = <<>>
  BY <1>1 DEF Update
<1>2. CASE calls.todo # <<>>
  <2> DEFINE o == Head(calls.todo)
             rest == Tail(calls.todo)
  <2>1. calls.todo \in Seq(Objects) /\ calls.rects \in [Objects -> Rect]
    BY DEF Calls
  <2>2. o \in Objects /\ rest \in Seq(Objects)
    BY <1>2, <2>1
  <2> HIDE DEF o, rest
  <2>3. Placed(calls.rects, o) \in Rect /\ children[o] \o rest \in Seq(Objects)
    <3>1. children[o] \in Seq(Objects)
      BY <2>2 DEF Family
    <3> QED
      BY <2>1, <2>2, <3>1, PlacedIsRect
  <2>4. [calls.rects EXCEPT ![o] = Placed(calls.rects, o)] \in [Objects -> Rect]
    BY <2>1, <2>2, <2>3
  <2>5. [calls EXCEPT !.todo = rest] \in Calls
    BY <2>2 DEF Calls
  <2>6. [rects |-> [calls.rects EXCEPT ![o] = Placed(calls.rects, o)],
         todo |-> IF o \in Leaves THEN rest ELSE children[o] \o rest] \in Calls
    BY <2>2, <2>3, <2>4 DEF Calls
  <2> QED
    BY <1>2, <2>5, <2>6 DEF Update, o, rest
<1> QED
  BY <1>1, <1>2

(* The objects below one that has just been called are new.                *)
LEMMA ChildrenAreNew ==
    ASSUME Family, NEW gone, NEW left, Reached(gone, left), NEW o \in left
    PROVE  /\ ChildrenOf(o) \cap (gone \cup left) = {}
           /\ Reached(gone \cup {o}, (left \ {o}) \cup ChildrenOf(o))
           /\ (o \in Leaves \/ ~Shows(o)) => Reached(gone \cup {o}, left \ {o})
<1>1. o \in Objects /\ o \notin gone /\ parent[Window] = NoParent /\ NoParent \notin Objects
  BY LayoutAssumption DEF Reached, Family
<1>2. ASSUME NEW c \in gone \cup left, c \in ChildrenOf(o) PROVE FALSE
  <2>1. c # Window
    BY <1>1, <1>2 DEF ChildrenOf
  <2>2. parent[c] \in gone
    BY <1>2, <2>1 DEF Reached
  <2> QED
    BY <1>1, <1>2, <2>2 DEF ChildrenOf
<1>3. Reached(gone \cup {o}, (left \ {o}) \cup ChildrenOf(o))
  BY <1>1, <1>2 DEF Reached, ChildrenOf
<1>4. o \in Leaves \/ ~Shows(o) => Reached(gone \cup {o}, left \ {o})
  BY <1>1 DEF Reached
<1> QED
  BY <1>2, <1>3, <1>4

(* What is placed stays placed.                                            *)
LEMMA PlacedStays ==
    ASSUME Family, look \in [Objects -> Look], NEW gone, NEW left, Reached(gone, left), NEW o \in left,
           NEW rects, LaidOutTo(rects, gone)
    PROVE  LaidOutTo([rects EXCEPT ![o] = Placed(rects, o)], gone \cup {o})
<1> DEFINE others == [rects EXCEPT ![o] = Placed(rects, o)]
<1>1. rects \in [Objects -> Rect] /\ o \in Objects /\ o \notin gone /\ gone \subseteq Objects
  BY DEF LaidOutTo, Reached
<1>2. /\ others \in [Objects -> Rect] /\ others[o] = Placed(rects, o)
      /\ \A q \in Objects : q # o => others[q] = rects[q]
  BY <1>1, PlacedIsRect
<1> HIDE DEF others
<1>3. parent[o] # o
  BY <1>1, NobodyIsHisChild DEF Family
<1>4. \A q \in gone \cup {o} : parent[q] = NoParent \/ (parent[q] \in Objects /\ parent[q] # o)
  <2>1. \A q \in gone : parent[q] = NoParent \/ parent[q] \in gone
    BY DEF Reached, Family
  <2>2. parent[o] = NoParent \/ parent[o] \in Objects
    BY <1>1 DEF Family
  <2> QED
    BY <1>1, <1>3, <2>1, <2>2
<1>5. \A q \in gone \cup {o} : Placed(others, q) = Placed(rects, q)
  <2> SUFFICES ASSUME NEW q \in gone \cup {o} PROVE Placed(others, q) = Placed(rects, q)
    OBVIOUS
  <2>1. parent[q] = NoParent \/ others[parent[q]] = rects[parent[q]]
    BY <1>2, <1>4
  <2> QED
    BY <2>1, ParentPlaces
<1>6. ASSUME NEW q \in gone \cup {o}, Shows(q) PROVE others[q] = Placed(others, q)
  <2>1. CASE q = o
    BY <1>2, <1>5, <2>1
  <2>2. CASE q # o
    <3>1. rects[q] = Placed(rects, q)
      BY <1>6, <2>2 DEF LaidOutTo
    <3> QED
      BY <1>1, <1>2, <1>5, <2>2, <3>1
  <2> QED
    BY <2>1, <2>2
<1> QED
  BY <1>2, <1>6 DEF LaidOutTo, others

LEMMA UpdateGoesOn ==
    ASSUME look \in [Objects -> Look], Family, NEW calls \in Calls, NEW n \in Nat, After(n, calls)
    PROVE  After(n + 1, Update(calls))
<1>1. PICK gone \in SUBSET Objects, left \in SUBSET Objects :
          /\ Reached(gone, left) /\ LaidOutTo(calls.rects, gone) /\ IsListOf(calls.todo, left)
          /\ Cardinality(gone) = n \/ left = {}
  BY DEF After
<1>2. CASE calls.todo = <<>>
  <2>1. left = {}
    BY <1>1, <1>2 DEF IsListOf
  <2> QED
    BY <1>1, <1>2, <2>1 DEF After, Update
<1>3. CASE calls.todo # <<>>
  <2> DEFINE o == Head(calls.todo)
             rest == Tail(calls.todo)
             next == Update(calls)
             placed == [calls.rects EXCEPT ![o] = Placed(calls.rects, o)]
  <2>1. o \in left /\ IsListOf(rest, left \ {o})
    BY <1>1, <1>3, HeadIsListed
  <2>2. next = IF o \in Panels /\ ~look[o].visible THEN [calls EXCEPT !.todo = rest]
               ELSE [rects |-> placed, todo |-> IF o \in Leaves THEN rest ELSE children[o] \o rest]
    BY <1>3 DEF Update
  <2> HIDE DEF o, rest, placed, next
  <2>3. Cardinality(gone \cup {o}) = n + 1 /\ gone \cup {o} \in SUBSET Objects
    <3>1. IsFiniteSet(gone) /\ o \notin gone /\ o \in Objects
      BY <1>1, <2>1, FS_Subset, LayoutAssumption DEF Reached
    <3>2. Cardinality(gone) = n
      BY <1>1, <2>1
    <3> QED
      BY <3>1, <3>2, FS_AddElement
  <2>4. /\ ChildrenOf(o) \cap (gone \cup left) = {}
        /\ Reached(gone \cup {o}, (left \ {o}) \cup ChildrenOf(o))
        /\ (o \in Leaves \/ ~Shows(o)) => Reached(gone \cup {o}, left \ {o})
    BY <1>1, <2>1, ChildrenAreNew
  <2>5. LaidOutTo(placed, gone \cup {o})
    BY <1>1, <2>1, PlacedStays DEF placed
  <2>6. CASE ~Shows(o)
    <3>1. next.rects = calls.rects /\ next.todo = rest
      BY <2>2, <2>6 DEF Shows, Calls
    <3>2. LaidOutTo(calls.rects, gone \cup {o})
      BY <1>1, <2>6 DEF LaidOutTo
    <3> DEFINE more == gone \cup {o}
               less == left \ {o}
    <3>3. /\ more \in SUBSET Objects /\ less \in SUBSET Objects
          /\ Reached(more, less) /\ LaidOutTo(next.rects, more) /\ IsListOf(next.todo, less)
          /\ Cardinality(more) = n + 1
      BY <2>1, <2>3, <2>4, <2>6, <3>1, <3>2
    <3> HIDE DEF more, less
    <3> QED
      BY <3>3 DEF After, next
  <2>7. CASE Shows(o) /\ o \in Leaves
    <3>1. next.rects = placed /\ next.todo = rest
      BY <2>2, <2>7 DEF Shows
    <3> DEFINE more == gone \cup {o}
               less == left \ {o}
    <3>3. /\ more \in SUBSET Objects /\ less \in SUBSET Objects
          /\ Reached(more, less) /\ LaidOutTo(next.rects, more) /\ IsListOf(next.todo, less)
          /\ Cardinality(more) = n + 1
      BY <2>1, <2>3, <2>4, <2>5, <2>7, <3>1
    <3> HIDE DEF more, less
    <3> QED
      BY <3>3 DEF After, next
  <2>8. CASE Shows(o) /\ o \notin Leaves
    <3>1. next.rects = placed /\ next.todo = children[o] \o rest
      BY <2>2, <2>8 DEF Shows
    <3> DEFINE more == gone \cup {o}
               less == (left \ {o}) \cup ChildrenOf(o)
    <3>2. IsListOf(children[o] \o rest, less)
      <4>1. IsListOf(children[o], ChildrenOf(o))
        BY <2>1 DEF Family
      <4>2. ChildrenOf(o) \cap (left \ {o}) = {}
        BY <2>4
      <4>3. IsListOf(children[o] \o rest, ChildrenOf(o) \cup (left \ {o}))
        BY <2>1, <4>1, <4>2, JoinIsListed
      <4>4. less = ChildrenOf(o) \cup (left \ {o})
        OBVIOUS
      <4> QED
        BY <4>3, <4>4
    <3>3. /\ more \in SUBSET Objects /\ less \in SUBSET Objects
          /\ Reached(more, less) /\ LaidOutTo(next.rects, more) /\ IsListOf(next.todo, less)
          /\ Cardinality(more) = n + 1
      BY <2>1, <2>3, <2>4, <2>5, <3>1, <3>2 DEF ChildrenOf
    <3> HIDE DEF more, less
    <3> QED
      BY <3>3 DEF After, next
  <2> QED
    BY <2>6, <2>7, <2>8
<1> QED
  BY <1>2, <1>3

(* A frame calls Update for everything that is seen.                       *)
LEMMA CallsAreMade ==
    ASSUME look \in [Objects -> Look], Family, NEW rects \in [Objects -> Rect]
    PROVE  \E calls \in Calls : After(Cardinality(Objects), calls) /\ calls.rects = Laid(rects, Window)
<1> DEFINE n == Cardinality(Objects)
           first == [rects |-> rects, todo |-> <<Window>>]
           step == [i \in 1..n |-> [calls \in Calls |-> Update(calls)]]
<1>1. n \in Nat /\ Window \in Objects
  BY LayoutAssumption, FS_CardinalityType DEF Objects
<1>2. first \in Calls
  BY <1>1 DEF Calls
<1>3. step \in Steps(Calls, n)
  BY UpdateIsTyped DEF Steps
<1> HIDE DEF step, n
<1>4. PICK f \in [0..n -> Calls] : f[0] = first /\ \A i \in 1..n : f[i] = step[i][f[i - 1]]
  BY <1>1, <1>2, <1>3, FoldDefined DEF Folds
<1>5. \A i \in 1..n : f[i] = Update(f[i - 1]) /\ f[i - 1] \in Calls
  <2> SUFFICES ASSUME NEW i \in 1..n PROVE f[i] = Update(f[i - 1]) /\ f[i - 1] \in Calls
    OBVIOUS
  <2>1. i - 1 \in 0..n
    BY <1>1
  <2>2. f[i - 1] \in Calls
    BY <1>4, <2>1
  <2>3. step[i] = [calls \in Calls |-> Update(calls)]
    BY DEF step
  <2> QED
    BY <1>4, <2>2, <2>3
<1> DEFINE after == CHOOSE g : g = [i \in 0..n |-> IF i = 0 THEN first ELSE Update(g[i - 1])]
<1>6. f = [i \in 0..n |-> IF i = 0 THEN first ELSE Update(f[i - 1])]
  <2>1. \A i \in 0..n : f[i] = IF i = 0 THEN first ELSE Update(f[i - 1])
    <3>1. \A i \in 0..n : i = 0 \/ i \in 1..n
      BY <1>1
    <3> QED
      BY <1>4, <1>5, <3>1
  <2> QED
    BY <1>4, <2>1
<1>7. after = [i \in 0..n |-> IF i = 0 THEN first ELSE Update(after[i - 1])]
  BY <1>6
<1>8. Laid(rects, Window) = after[n].rects
  BY DEF Laid, n, first
<1> HIDE DEF after
<1> DEFINE S == {i \in Nat : i <= n => after[i] \in Calls /\ After(i, after[i])}
<1>9. 0 \in S
  <2>1. after[0] = first
    BY <1>1, <1>7
  <2>2. After(0, first)
    <3> DEFINE none == {}
               only == {Window}
    <3>1. IsListOf(first.todo, only)
      BY DEF IsListOf
    <3>2. Reached(none, only) /\ LaidOutTo(first.rects, none)
      BY <1>1 DEF Reached, LaidOutTo
    <3>3. Cardinality(none) = 0
      BY FS_EmptySet
    <3>4. none \in SUBSET Objects /\ only \in SUBSET Objects
      BY <1>1
    <3> HIDE DEF none, only, first
    <3> QED
      BY <3>1, <3>2, <3>3, <3>4 DEF After
  <2> QED
    BY <1>2, <2>1, <2>2
<1>10. ASSUME NEW i \in Nat, i \in S PROVE i + 1 \in S
  <2> SUFFICES ASSUME i + 1 <= n PROVE after[i + 1] \in Calls /\ After(i + 1, after[i + 1])
    OBVIOUS
  <2>1. after[i] \in Calls /\ After(i, after[i])
    BY <1>1, <1>10
  <2>2. i + 1 \in 0..n /\ i + 1 # 0 /\ (i + 1) - 1 = i
    BY <1>1
  <2>3. after[i + 1] = Update(after[i])
    BY <1>7, <2>2
  <2> QED
    BY <2>1, <2>3, UpdateIsTyped, UpdateGoesOn
<1>11. n \in S
  <2> HIDE DEF S
  <2> QED
    BY <1>1, <1>9, <1>10, SetInduction
<1>12. after[n] \in Calls /\ After(n, after[n])
  BY <1>1, <1>11
<1> QED
  BY <1>8, <1>12 DEF n

LEMMA FrameLaysOut ==
    ASSUME look \in [Objects -> Look], Family, NEW rects \in [Objects -> Rect]
    PROVE  /\ Laid(rects, Window) \in [Objects -> Rect]
           /\ \A o \in Objects : Seen(o) => Laid(rects, Window)[o] = Placed(Laid(rects, Window), o)
<1> DEFINE laid == Laid(rects, Window)
<1>1. PICK calls \in Calls : After(Cardinality(Objects), calls) /\ calls.rects = laid
  BY CallsAreMade
<1>2. PICK gone \in SUBSET Objects, left \in SUBSET Objects :
          /\ Reached(gone, left) /\ LaidOutTo(laid, gone)
          /\ Cardinality(gone) = Cardinality(Objects) \/ left = {}
  BY <1>1 DEF After
<1> HIDE DEF laid
<1>3. left = {}
  <2>1. Cardinality(gone) = Cardinality(Objects) => gone = Objects
    BY LayoutAssumption, FS_Subset
  <2>2. gone = Objects => left = {}
    BY <1>2 DEF Reached
  <2> QED
    BY <1>2, <2>1, <2>2
<1>4. ASSUME NEW o \in Objects, Seen(o) PROVE laid[o] = Placed(laid, o)
  <2>1. PICK S \in SUBSET Objects :
            /\ o \in S
            /\ \A s \in S : Shows(s) /\ (s = Window \/ parent[s] \in S \ Leaves)
    BY <1>4 DEF Seen, Shows
  <2>2. S \ gone = {}
    <3> SUFFICES ASSUME S \ gone # {} PROVE FALSE
      OBVIOUS
    <3>1. S \ gone \in SUBSET Objects
      OBVIOUS
    <3>2. PICK q \in S \ gone : parent[q] \notin S \ gone
      BY <3>1 DEF Family, Rooted
    <3>3. Window \in gone
      BY <1>2, <1>3 DEF Reached
    <3>4. parent[q] \in S \ Leaves /\ parent[q] \in gone
      BY <2>1, <3>2, <3>3
    <3>5. Shows(parent[q]) /\ parent[q] \in gone \ Leaves
      BY <2>1, <3>4
    <3>6. ChildrenOf(parent[q]) \subseteq gone
      BY <1>2, <1>3, <3>5 DEF Reached
    <3> QED
      BY <3>2, <3>6 DEF ChildrenOf
  <2> QED
    BY <1>2, <2>1, <2>2 DEF LaidOutTo
<1>5. laid \in [Objects -> Rect]
  BY <1>2 DEF LaidOutTo
<1> QED
  BY <1>4, <1>5 DEF laid

-----------------------------------------------------------------------------
LEMMA LayoutStarts == LayoutInit => LayoutInv
<1> SUFFICES ASSUME LayoutInit PROVE LayoutInv
  OBVIOUS
<1>1. parent = Built /\ Rooted
  BY LayoutAssumption DEF LayoutInit, Rooted
<1>2. \A p \in Objects : IsListOf(children[p], ChildrenOf(p)) /\ children[p] \in Seq(Objects)
  <2> SUFFICES ASSUME NEW p \in Objects
               PROVE  IsListOf(children[p], ChildrenOf(p)) /\ children[p] \in Seq(Objects)
    OBVIOUS
  <2>1. children[p] = SetToSeq(ChildrenOf(p))
    BY <1>1 DEF LayoutInit, ChildrenOf
  <2>2. ChildrenOf(p) \subseteq Objects /\ IsFiniteSet(ChildrenOf(p))
    BY LayoutAssumption, FS_Subset DEF ChildrenOf
  <2>3. IsListOf(children[p], ChildrenOf(p))
    BY <2>1, <2>2, SetIsListed
  <2>4. children[p] \in Seq(ChildrenOf(p))
    BY <2>3 DEF IsListOf
  <2> QED
    BY <2>2, <2>3, <2>4
<1>3. children \in [Objects -> Seq(Objects)]
  BY <1>2 DEF LayoutInit
<1>4. Family
  BY <1>1, <1>2, <1>3, LayoutAssumption DEF Family
<1>5. look \in [Objects -> Look]
  BY LayoutAssumption DEF LayoutInit, Look
<1>6. rect \in [Objects -> Rect] /\ shown = FALSE
  BY DEF LayoutInit, Rect
<1> QED
  BY <1>4, <1>5, <1>6 DEF LayoutInv, DockedKept

LEMMA AddChildKeeps ==
    ASSUME LayoutInv, NEW p \in Objects, NEW c \in Objects, AddChild(p, c)
    PROVE  LayoutInv'
<1>1. /\ c # Window /\ parent[c] = NoParent /\ shown' = FALSE /\ UNCHANGED <<look, rect>>
      /\ parent' = [parent EXCEPT ![c] = p]
      /\ children' = [children EXCEPT ![p] = Append(children[p], c)]
  BY DEF AddChild, Changes
<1>2. PICK S \in SUBSET (Objects \ {c}) : p \in S /\ UpToTheTop(S)
  BY DEF AddChild
<1>3. /\ Family /\ look \in [Objects -> Look] /\ rect \in [Objects -> Rect] /\ NoParent \notin Objects
      /\ parent \in [Objects -> Objects \cup {NoParent}] /\ children \in [Objects -> Seq(Objects)]
  BY LayoutAssumption DEF LayoutInv, Family
<1>4. \A q \in Objects : parent'[q] = IF q = c THEN p ELSE parent[q]
  BY <1>1, <1>3
<1>5. Rooted'
  <2> SUFFICES ASSUME NEW T \in SUBSET Objects, T # {} PROVE \E o \in T : parent'[o] \notin T
    BY DEF Rooted
  <2>1. CASE T \cap S # {}
    <3>1. T \cap S \in SUBSET Objects
      OBVIOUS
    <3>2. PICK o \in T \cap S : parent[o] \notin T \cap S
      BY <1>3, <2>1, <3>1 DEF Family, Rooted
    <3>3. o # c /\ o \in Objects /\ parent'[o] = parent[o]
      BY <1>2, <1>4, <3>2
    <3>4. parent[o] \in S \cup {NoParent}
      BY <1>2, <3>2 DEF UpToTheTop
    <3> QED
      BY <1>3, <3>2, <3>3, <3>4
  <2>2. CASE T \cap S = {}
    <3>1. PICK o \in T : parent[o] \notin T
      BY <1>3 DEF Family, Rooted
    <3> QED
      BY <1>2, <1>4, <2>2, <3>1
  <2> QED
    BY <2>1, <2>2
<1>6. \A q \in Objects : IsListOf(children'[q], ChildrenOf(q)')
  <2> SUFFICES ASSUME NEW q \in Objects PROVE IsListOf(children'[q], ChildrenOf(q)')
    OBVIOUS
  <2>1. IsListOf(children[q], ChildrenOf(q))
    BY <1>3 DEF Family
  <2>2. CASE q = p
    <3>1. c \notin ChildrenOf(q) /\ ChildrenOf(q)' = ChildrenOf(q) \cup {c}
      BY <1>1, <1>3, <1>4, <2>2 DEF ChildrenOf
    <3>2. children'[q] = Append(children[q], c)
      BY <1>1, <1>3, <2>2
    <3> QED
      BY <2>1, <3>1, <3>2, AppendIsListed
  <2>3. CASE q # p
    <3>1. ChildrenOf(q)' = ChildrenOf(q)
      BY <1>1, <1>3, <1>4, <2>3 DEF ChildrenOf
    <3>2. children'[q] = children[q]
      BY <1>1, <1>3, <2>3
    <3> QED
      BY <2>1, <3>1, <3>2
  <2> QED
    BY <2>2, <2>3
<1>7. /\ parent' \in [Objects -> Objects \cup {NoParent}] /\ parent'[Window] = NoParent
      /\ children' \in [Objects -> Seq(Objects)]
  <2>1. Append(children[p], c) \in Seq(Objects)
    BY <1>3
  <2>2. Window \in Objects /\ parent[Window] = NoParent
    BY <1>3, LayoutAssumption DEF Family, Objects
  <2> QED
    BY <1>1, <1>3, <1>4, <2>1, <2>2
<1>8. Family'
  BY <1>5, <1>6, <1>7 DEF Family
<1>9. DockedKept'
  BY <1>1 DEF DockedKept
<1>10. look' \in [Objects -> Look'] /\ rect' \in [Objects -> Rect] /\ shown' \in BOOLEAN
  BY <1>1, <1>3 DEF Look
<1> QED
  BY <1>8, <1>9, <1>10 DEF LayoutInv, Look

LEMMA RemoveChildKeeps ==
    ASSUME LayoutInv, NEW p \in Objects, NEW c \in Objects, RemoveChild(p, c)
    PROVE  LayoutInv'
<1>1. /\ shown' = FALSE /\ UNCHANGED <<look, rect>>
      /\ parent' = [parent EXCEPT ![c] = NoParent]
  BY DEF RemoveChild, Changes
<1>2. PICK i \in DOMAIN children[p] :
          children[p][i] = c /\ children' = [children EXCEPT ![p] = RemoveAt(children[p], i)]
  BY DEF RemoveChild
<1>3. /\ Family /\ look \in [Objects -> Look] /\ rect \in [Objects -> Rect] /\ NoParent \notin Objects
      /\ parent \in [Objects -> Objects \cup {NoParent}] /\ children \in [Objects -> Seq(Objects)]
  BY LayoutAssumption DEF LayoutInv, Family
<1>4. IsListOf(children[p], ChildrenOf(p)) /\ i \in 1..Len(children[p]) /\ c \in ChildrenOf(p)
  <2>1. IsListOf(children[p], ChildrenOf(p)) /\ children[p] \in Seq(Objects)
    BY <1>3 DEF Family
  <2>2. i \in 1..Len(children[p])
    BY <1>2, <2>1
  <2> QED
    BY <1>2, <2>1, <2>2, ListedIsMember
<1>5. \A q \in Objects : parent'[q] = IF q = c THEN NoParent ELSE parent[q]
  BY <1>1, <1>3
<1>6. Rooted'
  <2> SUFFICES ASSUME NEW T \in SUBSET Objects, T # {} PROVE \E o \in T : parent'[o] \notin T
    BY DEF Rooted
  <2>1. PICK o \in T : parent[o] \notin T
    BY <1>3 DEF Family, Rooted
  <2> QED
    BY <1>3, <1>5, <2>1
<1>7. \A q \in Objects : IsListOf(children'[q], ChildrenOf(q)')
  <2> SUFFICES ASSUME NEW q \in Objects PROVE IsListOf(children'[q], ChildrenOf(q)')
    OBVIOUS
  <2>1. CASE q = p
    <3>1. ChildrenOf(q)' = ChildrenOf(q) \ {c}
      BY <1>3, <1>5, <2>1 DEF ChildrenOf
    <3>2. children'[q] = RemoveAt(children[q], i)
      BY <1>2, <1>3, <2>1
    <3>3. IsListOf(RemoveAt(children[q], i), ChildrenOf(q) \ {children[q][i]})
      BY <1>4, <2>1, RemovedIsListed
    <3> QED
      BY <1>2, <2>1, <3>1, <3>2, <3>3
  <2>2. CASE q # p
    <3>1. ChildrenOf(q)' = ChildrenOf(q)
      BY <1>3, <1>4, <1>5, <2>2 DEF ChildrenOf
    <3>2. children'[q] = children[q] /\ IsListOf(children[q], ChildrenOf(q))
      BY <1>2, <1>3, <2>2 DEF Family
    <3> QED
      BY <3>1, <3>2
  <2> QED
    BY <2>1, <2>2
<1>8. /\ parent' \in [Objects -> Objects \cup {NoParent}] /\ parent'[Window] = NoParent
      /\ children' \in [Objects -> Seq(Objects)]
  <2>1. RemoveAt(children[p], i) \in Seq(Objects)
    BY <1>3, <1>4, WithoutOne
  <2>2. Window \in Objects /\ parent[Window] = NoParent
    BY <1>3, LayoutAssumption DEF Family, Objects
  <2> QED
    BY <1>1, <1>2, <1>3, <1>5, <2>1, <2>2
<1>9. Family'
  BY <1>6, <1>7, <1>8 DEF Family
<1>10. DockedKept'
  BY <1>1 DEF DockedKept
<1>11. look' \in [Objects -> Look] /\ rect' \in [Objects -> Rect] /\ shown' \in BOOLEAN
  BY <1>1, <1>3
<1> QED
  BY <1>9, <1>10, <1>11 DEF LayoutInv

LEMMA FamilyStays ==
    ASSUME Family, parent' = parent, children' = children
    PROVE  Family'
<1>1. \A p : ChildrenOf(p)' = ChildrenOf(p)
  BY DEF ChildrenOf
<1>2. Rooted'
  BY DEF Family, Rooted
<1> QED
  BY <1>1, <1>2 DEF Family

LEMMA LayoutFrameKeeps == LayoutInv /\ LayoutFrame => LayoutInv'
<1> SUFFICES ASSUME LayoutInv, LayoutFrame PROVE LayoutInv'
  OBVIOUS
<1>1. /\ rect' = Laid(rect, Window) /\ shown' = TRUE
      /\ parent' = parent /\ children' = children /\ look' = look
  BY DEF LayoutFrame
<1>2. Family /\ look \in [Objects -> Look] /\ rect \in [Objects -> Rect]
  BY DEF LayoutInv
<1>3. /\ rect' \in [Objects -> Rect]
      /\ \A o \in Objects : Seen(o) => rect'[o] = Placed(rect', o)
  BY <1>1, <1>2, FrameLaysOut
<1>4. ASSUME NEW o \in Objects, Seen(o), "center" \notin look[o].docking
      PROVE  /\ "left" \in look[o].docking => rect'[o].x = X(rect', parent[o]) + Margins.left
             /\ DockedRight(o) =>
                   rect'[o].x + rect'[o].width
                       = (X(rect', parent[o]) + WideIn(rect', parent[o])) - Margins.right
  BY <1>2, <1>3, <1>4, PlacedIsDocked
<1>5. \A o : Seen(o)' = Seen(o)
  BY <1>1 DEF Seen
<1>6. \A o : X(rect', parent[o]) = X(rect, parent[o])' /\ WideIn(rect', parent[o]) = WideIn(rect, parent[o])'
  BY <1>1 DEF X, WideIn
<1>7. DockedKept'
  <2>1. ASSUME NEW o \in Objects \ {Window}, Seen(o)', "center" \notin look'[o].docking
        PROVE  /\ "left" \in look'[o].docking => rect'[o].x = X(rect, parent[o])' + Margins.left
               /\ DockedRight(o)' =>
                     rect'[o].x + rect'[o].width
                         = (X(rect, parent[o])' + WideIn(rect, parent[o])') - Margins.right
    <3>1. Seen(o) /\ look'[o] = look[o] /\ (DockedRight(o)' <=> DockedRight(o))
      BY <1>1, <1>5, <2>1 DEF DockedRight
    <3>2. /\ "left" \in look[o].docking => rect'[o].x = X(rect', parent[o]) + Margins.left
          /\ DockedRight(o) =>
                rect'[o].x + rect'[o].width
                    = (X(rect', parent[o]) + WideIn(rect', parent[o])) - Margins.right
      BY <1>4, <2>1, <3>1
    <3> QED
      BY <1>6, <3>1, <3>2
  <2> QED
    BY <2>1 DEF DockedKept
<1>8. Family'
  BY <1>1, <1>2, FamilyStays
<1> QED
  BY <1>1, <1>2, <1>3, <1>7, <1>8 DEF LayoutInv

LEMMA LookKeeps ==
    ASSUME LayoutInv, look' \in [Objects -> Look], shown' = FALSE, UNCHANGED <<parent, children, rect>>
    PROVE  LayoutInv'
<1>1. Family'
  BY FamilyStays DEF LayoutInv
<1> QED
  BY <1>1 DEF LayoutInv, DockedKept

LEMMA LayoutStep == LayoutInv /\ [LayoutNext]_layoutVars => LayoutInv'
<1> SUFFICES ASSUME LayoutInv, [LayoutNext]_layoutVars PROVE LayoutInv'
  OBVIOUS
<1>1. look \in [Objects -> Look] /\ \A o \in Objects : look[o] \in Look
  BY DEF LayoutInv
<1>2. ASSUME NEW o \in Objects, NEW docking \in Dockings, SetDocking(o, docking) PROVE LayoutInv'
  <2>1. [look[o] EXCEPT !.docking = docking] \in Look
    BY <1>1 DEF Look
  <2>2. look' = [look EXCEPT ![o] = [look[o] EXCEPT !.docking = docking]]
    BY <1>2 DEF SetDocking
  <2>3. look' \in [Objects -> Look]
    BY <1>1, <2>1, <2>2
  <2> QED
    BY <1>2, <2>3, LookKeeps DEF SetDocking, Changes
<1>3. ASSUME NEW o \in Objects, NEW width \in Widths, SetWidth(o, width) PROVE LayoutInv'
  <2>1. [look[o] EXCEPT !.width = width] \in Look
    BY <1>1, LayoutAssumption DEF Look
  <2>2. look' = [look EXCEPT ![o] = [look[o] EXCEPT !.width = width]]
    BY <1>3 DEF SetWidth
  <2>3. look' \in [Objects -> Look]
    BY <1>1, <2>1, <2>2
  <2> QED
    BY <1>3, <2>3, LookKeeps DEF SetWidth, Changes
<1>4. ASSUME NEW o \in Panels, SetVisible(o) PROVE LayoutInv'
  <2>0. o \in Objects
    BY DEF Objects
  <2>1. [look[o] EXCEPT !.visible = ~look[o].visible] \in Look
    BY <1>1, <2>0 DEF Look
  <2>2. look' = [look EXCEPT ![o] = [look[o] EXCEPT !.visible = ~look[o].visible]]
    BY <1>4 DEF SetVisible
  <2>3. look' \in [Objects -> Look]
    BY <1>1, <2>0, <2>1, <2>2
  <2> QED
    BY <1>4, <2>3, LookKeeps DEF SetVisible, Changes
<1>5. ASSUME NEW d \in Int, NEW e \in Int, DragWindow(d, e) PROVE LayoutInv'
  <2>0. Window \in Objects
    BY LayoutAssumption DEF Objects
  <2> DEFINE own == look[Window]
             further == [own EXCEPT !.x = own.x + d]
             dragged == [further EXCEPT !.grow = own.grow + e]
  <2>1. own \in Look /\ own.x + d \in Int /\ own.grow + e \in Int
    BY <1>1, <2>0 DEF Look
  <2>2. dragged \in Look
    BY <2>1 DEF Look
  <2>3. look' = [look EXCEPT ![Window] = dragged]
    BY <1>1, <1>5, <2>0 DEF DragWindow
  <2>4. look' \in [Objects -> Look]
    BY <1>1, <2>2, <2>3
  <2> QED
    BY <1>5, <2>4, LookKeeps DEF DragWindow, Changes
<1>6. ASSUME NEW d \in Moves, DragWindow(d, 0) \/ DragWindow(0, d) PROVE LayoutInv'
  <2> DEFINE zero == 0
  <2>1. d \in Int /\ zero \in Int /\ (DragWindow(d, zero) \/ DragWindow(zero, d))
    BY <1>6, LayoutAssumption
  <2> HIDE DEF zero
  <2> QED
    BY <1>5, <2>1
<1>7. CASE UNCHANGED layoutVars
  <2>1. Family'
    <3>1. parent' = parent /\ children' = children
      BY <1>7 DEF layoutVars
    <3> QED
      BY <3>1, FamilyStays DEF LayoutInv
  <2>2. DockedKept'
    <3>1. \A o : Seen(o)' = Seen(o) /\ X(rect, parent[o])' = X(rect, parent[o])
              /\ WideIn(rect, parent[o])' = WideIn(rect, parent[o])
      BY <1>7 DEF layoutVars, Seen, X, WideIn
    <3>2. \A o : DockedRight(o)' = DockedRight(o)
      BY <1>7 DEF layoutVars, DockedRight
    <3> QED
      BY <1>7, <3>1, <3>2 DEF layoutVars, LayoutInv, DockedKept
  <2> QED
    BY <1>7, <2>1, <2>2 DEF layoutVars, LayoutInv
<1> QED
  BY <1>2, <1>3, <1>4, <1>6, <1>7, AddChildKeeps, RemoveChildKeeps, LayoutFrameKeeps DEF LayoutNext

(* Whatever scripts build of UI objects, dock, hide, move from parent to   *)
(* parent and resize, and however the mouse drags the window: in a frame   *)
(* that is shown, every object keeps its margins.                          *)
THEOREM DockingIsKept == LayoutSpec => []DockedKept
<1>1. LayoutInv => DockedKept
  BY DEF LayoutInv
<1> QED
  BY <1>1, LayoutStarts, LayoutStep, PTL DEF LayoutSpec
=============================================================================
