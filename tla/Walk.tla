-------------------------------- MODULE Walk --------------------------------
(***************************************************************************)
(* The player's own character on the stage (client/3d/FieldPlayer.cpp,     *)
(* client/3d/Stage.cpp): walking, jumping, falling, being rescued.  A step *)
(* is one frame of FieldPlayer::Update, or a warp within the channel.      *)
(*                                                                         *)
(* The stage is a row of columns with one floor each, or none, and a       *)
(* ceiling above; a column that rises out of reach is a wall.  All lengths *)
(* are whole, and the character faces along the row.                       *)
(***************************************************************************)
EXTENDS Integers, FiniteSets

CONSTANTS
    Floor,      \* [column |-> the height of its floor], for those that have one
    Ceiling,    \* [column |-> the height of its ceiling], likewise
    Starts,     \* the columns of the start points
    WarpAt, Destination, \* the column of a warp point and where it leads, in this channel
    Tall, Reach,         \* the height of the character and half of it
    StepHigh,   \* what it can step up, and what FrontCollides leaves out
    Depth,      \* how far below its feet a floor is looked for; 50
    MinHeight,  \* min_height_
    Deltas,     \* the lengths of a frame
    Light, Gravity, Heavy, \* acc.y, as a positive number: 6.5, 9.8, 11
    Jump,       \* vel.y of a jump
    WalkSpeed, RunSpeed, AirSpeed, AirAcc,
    WalkChangeType \* 0: a key held makes it walk, 1: a key pressed changes it

ASSUME WalkAssumption ==
    /\ DOMAIN Floor \subseteq Int /\ Floor \in [DOMAIN Floor -> Int]
    /\ Ceiling \in [DOMAIN Ceiling -> Int] /\ Deltas \subseteq Nat
    /\ {Tall, Reach, StepHigh, Depth, Heavy, WalkSpeed, RunSpeed, AirSpeed, AirAcc} \subseteq Nat
    /\ MinHeight \in Int /\ Jump \in Int
    /\ Starts # {} /\ Starts \subseteq DOMAIN Floor /\ Destination \in DOMAIN Floor
    /\ \A x \in DOMAIN Floor : Floor[x] >= MinHeight
    /\ Light \in Nat \ {0} /\ Gravity \in Light..Heavy

VARIABLES
    me,       \* current_stat_
    fell,     \* prev_stat_.pos.y is below min_height_
    rotation  \* of RescuePosition, the remainder that counts

walkVars == <<me, fell, rotation>>

Standing(x) == [x |-> x, y |-> Floor[x], vx |-> 0, vy |-> 0, acc |-> 0, walking |-> FALSE,
                motion |-> "stand"]

WalkInit ==
    /\ \E x \in Starts : me = Standing(x)
    /\ fell = FALSE /\ rotation = 0

Sized(n) == IF n < 0 THEN -n ELSE n
Limited(n, limit) == IF n > limit THEN limit ELSE IF n < -limit THEN -limit ELSE n
Between(n, low, high) == IF n < low THEN low ELSE IF n > high THEN high ELSE n

-----------------------------------------------------------------------------
\* Stage::FloorExists and Stage::FrontCollides, which looks one column ahead.
FloorExists(x, y, depth) == x \in DOMAIN Floor /\ Floor[x] \in (y - depth)..(y + Reach)
FrontCollides(p, dx) ==
    LET ahead == IF dx > 0 THEN p.x + 1 ELSE p.x - 1 IN
    dx # 0 /\ ahead \in DOMAIN Floor /\ Floor[ahead] > p.y + StepHigh

\* A step on the ground, to a column with a floor: along the slope, off an edge,
\* up a step, or not at all.
Walked(p, q) ==
    LET rise == Floor[q.x] - q.y
        length == Sized(q.x - p.x)
    IN  IF Sized(rise) <= (length * 7) \div 10 THEN [q EXCEPT !.y = Floor[q.x]]
        ELSE IF rise < 0 THEN [q EXCEPT !.acc = Gravity]
        ELSE IF rise < StepHigh /\ rise < length THEN [q EXCEPT !.y = Floor[q.x]]
        ELSE [q EXCEPT !.x = p.x, !.y = p.y]

\* Mutant of Fallen: landing looks from the feet, not from half the height above.
FallenFromFeet(q) ==
    IF q.x \in DOMAIN Floor /\ Floor[q.x] = q.y THEN [q EXCEPT !.acc = 0, !.vy = 0] ELSE q

\* Falling ends on a floor up to Reach above the feet, rising at the ceiling.
Fallen(q) ==
    IF FloorExists(q.x, q.y, 0) THEN [q EXCEPT !.y = Floor[q.x], !.acc = 0, !.vy = 0] ELSE q
Risen(p, q) ==
    IF q.x \in DOMAIN Ceiling /\ Ceiling[q.x] \in (p.y + Tall)..(q.y + Tall)
    THEN [q EXCEPT !.y = Ceiling[q.x] - Tall, !.vy = -p.vy] ELSE q

\* FieldPlayer::Move, from prev_stat_.
Move(p, dt) ==
    LET free == [p EXCEPT !.x = @ + p.vx * dt, !.y = @ + p.vy * dt, !.vy = @ - p.acc * dt]
        slid == IF ~FrontCollides(p, free.x - p.x) THEN free
                ELSE IF p.acc = 0 THEN [free EXCEPT !.x = p.x, !.y = p.y, !.vx = 0]
                ELSE [free EXCEPT !.x = p.x, !.vx = 0]
        kept == IF FloorExists(slid.x, slid.y, Depth) THEN slid
                ELSE [slid EXCEPT !.x = p.x, !.vx = 0]
        moved == IF kept.x = p.x /\ kept.y = p.y THEN kept
                 ELSE IF p.acc = 0 THEN Walked(p, kept)
                 ELSE IF kept.y <= p.y THEN Fallen(kept) ELSE Risen(p, kept)
    IN  IF moved.acc = 0 THEN [moved EXCEPT !.vx = 0, !.vy = 0] ELSE moved

\* InputFromUser.  The speed is that of the motion of the frame before.
SpeedOf(motion) == IF motion = "walk" THEN WalkSpeed ELSE IF motion = "run" THEN RunSpeed ELSE 0
IsWalking(p, key) ==
    IF WalkChangeType = 0 THEN key # "up" ELSE IF key = "pressed" THEN ~p.walking ELSE p.walking

Steered(p, q, dir, key, mouse) ==
    LET speed == SpeedOf(p.motion)
        now == [q EXCEPT !.walking = IsWalking(p, key)]
    IN  IF q.acc # 0
        THEN [now EXCEPT !.vx = Limited(@ + dir * AirAcc, IF speed > AirSpeed THEN speed ELSE AirSpeed),
                         !.acc = Between(@ + mouse, Light, Heavy)]
        ELSE IF dir = 0 THEN [now EXCEPT !.motion = "stand"]
        ELSE [now EXCEPT !.vx = dir * speed, !.motion = IF now.walking THEN "walk" ELSE "run"]
InputFromUser(p, q, dir, key, mouse, jump) ==
    LET now == Steered(p, q, dir, key, mouse) IN
    IF q.acc = 0 /\ jump THEN [now EXCEPT !.acc = Gravity, !.vy = @ + Jump] ELSE now

\* RescuePosition: the nearest start point, or, of one right here, the next in
\* turn of all of them by distance.
Away(s) == Sized(s - me.x)
NextRotation ==
    IF me.x \in Starts /\ Starts # {me.x} THEN (rotation + 1) % Cardinality(Starts) ELSE 0
RescuePosition(x) ==
    /\ NextRotation >= Cardinality({s \in Starts : Away(s) < Away(x)})
    /\ NextRotation < Cardinality({s \in Starts : Away(s) <= Away(x)})
    /\ rotation' = NextRotation

Update(p, dt, dir, key, mouse, jump) ==
    /\ me' = InputFromUser(p, Move(p, dt), dir, key, mouse, jump)
    /\ fell' = (p.y < MinHeight)

WalkFrame(dt, dir, key, mouse, jump) ==
    \/ ~fell /\ Update(me, dt, dir, key, mouse, jump) /\ UNCHANGED rotation
    \/ \E x \in Starts :
           /\ fell /\ RescuePosition(x)
           /\ Update([me EXCEPT !.x = x, !.y = Floor[x], !.acc = 0, !.vy = 0], dt, dir, key, mouse, jump)

\* scene::MainLoop::ProcessInput at a warp point, FieldPlayer::ResetPosition.
ResetPosition ==
    /\ me.x = WarpAt /\ Sized(me.y - Floor[WarpAt]) <= StepHigh
    /\ me' = [me EXCEPT !.x = Destination, !.y = Floor[Destination]]
    /\ UNCHANGED <<fell, rotation>>

WalkStep ==
    \/ \E dt \in Deltas, dir \in {-1, 0, 1}, key \in {"up", "pressed"}, jump \in BOOLEAN :
           WalkFrame(dt, dir, key, 0, jump)
    \/ \E dt \in Deltas, mouse \in {-1, 1} : WalkFrame(dt, 0, "up", mouse, FALSE)
WalkNext == WalkStep \/ ResetPosition

WalkSpec == WalkInit /\ [][WalkNext]_walkVars

-----------------------------------------------------------------------------
\* Who falls does not fall through a floor he was above, nor through the one of
\* the column he drifts to, unless one frame takes him down by more than half his
\* height: landing looks no higher (FieldPlayer.cpp:368, 457).
Above(p) == p.x \in DOMAIN Floor => Floor[p.x] <= p.y
NoFallThrough ==
    [][Above(me) /\ me'.y \in (me.y - Reach)..(me.y - 1) => Above(me')]_walkVars

\* A character on the ground stands on the floor of its column, whatever it
\* stepped up, slid along or was put back to (FieldPlayer.cpp:345-490).
Grounded == me.acc = 0 => me.x \in DOMAIN Floor /\ me.y = Floor[me.x]

\* Whoever jumped or walked off an edge stands on a floor again, if only to jump
\* on: having landed, or rescued from below the stage (FieldPlayer.cpp:261).
FallsEnd == me.acc # 0 ~> me.x \in DOMAIN Floor /\ me.y = Floor[me.x]

\* A character stands on floors, and neither falls through one nor falls for ever.
WalkSound == []Grounded /\ NoFallThrough /\ FallsEnd
=============================================================================
