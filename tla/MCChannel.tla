------------------------------ MODULE MCChannel -------------------------------
(***************************************************************************)
(* What goes on on a channel: how much the server takes from a client,     *)
(* how commands travel as bytes, what the users say and where they are,    *)
(* and the world of a client, in which its player walks and the others are *)
(* shown.  The machines share nothing but the frames of the main loop, so  *)
(* one run checks them one after the other: `part` says which of them a    *)
(* behaviour is about, and the others keep their initial state.            *)
(***************************************************************************)
EXTENDS ReceiveLimit, Relay, Walk, Camera, Motions, Daylight, Follow, Wire, TLC

CONSTANTS ann, bob
MCLists == {<<>>, <<bob>>, <<Nobody, ann>>}
MCWalks == (ann :> 2) @@ (bob :> 0)
MCWords == (ann :> 0) @@ (bob :> 1)
MCMoves == (ann :> 0) @@ (bob :> 1)

\* What Chat takes out of a queue, against SelectSeq, for queues of up to five.
ASSUME TalkIsTheWords ==
    LET commands == [kind : {"json"}, number : {1, 2}] \cup [kind : {"position"}, number : {1}]
    IN  \A n \in 0..5 : \A s \in [1..n -> commands] : Talk(s) = SelectSeq(s, IsJson)

MCFloor == [x \in {0, 1, 2, 4} |-> IF x = 1 THEN 1 ELSE IF x = 2 THEN 3 ELSE 0]
MCCeiling == [x \in {1} |-> 5]
MCMinHeight == -1
MCBasic == {[stand |-> 0, walk |-> 1, run |-> 2], [stand |-> 1, walk |-> 2, run |-> 0]}
MCEmotes == {[anim |-> 3, loop |-> FALSE], [anim |-> None, loop |-> TRUE]}
MCGround == [c \in {<<0, 0>>, <<1, 0>>, <<1, 1>>, <<2, 1>>} |-> IF c = <<2, 1>> THEN 1 ELSE 0]
MCTarget(x, y, z, vy) == [x |-> x, y |-> y, z |-> z, vy |-> vy]
MCTargets == {MCTarget(0, 0, 0, 0), MCTarget(1, 0, 0, 0), MCTarget(2, 1, 1, 0),
              MCTarget(1, 2, 1, 1), MCTarget(0, 1, 1, 1)}

\* Headers 2, 7 and 20: without values, with numbers, with a string.
MCTypes == 20 :> <<0>> @@ 7 :> <<2, 1>> @@ 2 :> << >>
MCCommands ==
    {[header |-> 2, values |-> << >>],
     [header |-> 7, values |-> << <<32382>>, <<125>> >>],
     [header |-> 20, values |-> << <<65, 125, 94>> >>],
     [header |-> 20, values |-> << [i \in 1..11 |-> 126] >>]}

VARIABLE part

channelVars == <<part, vars, relayVars, walkVars, cameraVars, motionsVars, daylightVars,
                 followVars, wireVars>>

\* One initial state for the parts a behaviour is not about.
Pinned(name, others) == part = name \/ others

ChannelInit ==
    /\ part \in {"limit", "relay", "walk", "camera", "motions", "daylight", "follow", "wire"}
    /\ Init /\ RelayInit /\ WalkInit /\ CameraInit /\ MotionsInit /\ DaylightInit /\ FollowInit
    /\ WireInit
    /\ Pinned("walk", me.x = WarpAt)
    /\ Pinned("motions", basic = CHOOSE b \in BasicMotions : TRUE)
    /\ Pinned("daylight", clock = 0 /\ evening = 0 /\ night = 0)
    /\ Pinned("follow", goal = MCTarget(0, 0, 0, 0))
    /\ Pinned("wire", ~encryption)

LimitStep == part = "limit" /\ Next
RelayStep == part = "relay" /\ RelayNext
WalkingStep == part = "walk" /\ WalkNext
CameraStep == part = "camera" /\ CameraNext
MotionsStep == part = "motions" /\ MotionsNext
DaylightStep == part = "daylight" /\ Calc
FollowStep == part = "follow" /\ FollowNext
WireStep == part = "wire" /\ WireNext

Still(of, state) == part # of => UNCHANGED state

ChannelNext ==
    /\ UNCHANGED part
    /\ \/ LimitStep \/ RelayStep \/ WalkingStep \/ CameraStep \/ MotionsStep
       \/ DaylightStep \/ FollowStep \/ WireStep
    /\ Still("limit", vars) /\ Still("relay", relayVars) /\ Still("walk", walkVars)
    /\ Still("camera", cameraVars) /\ Still("motions", motionsVars)
    /\ Still("daylight", daylightVars) /\ Still("follow", followVars)
    /\ Still("wire", wireVars)

\* Of each part the fairness of its own specification; the frames of the main
\* loop go on.
ChannelSpec ==
    /\ ChannelInit /\ [][ChannelNext]_channelVars
    /\ WF_vars(part = "limit" /\ Tick) /\ WF_vars(part = "limit" /\ Floods)
    /\ \A u \in Users : WF_relayVars(part = "relay" /\ GoesOn(u))
    /\ part = "walk" => []<><<TRUE>>_walkVars
    /\ WF_followVars(part = "follow" /\ FollowFrame)
    /\ WireFair
===============================================================================
